---------------------------- MODULE Spec2Model ----------------------------
(***************************************************************************)
(* Model of the RAG knowledge-base backend (src/backend).                  *)
(*                                                                         *)
(*  - Spec        : the running service: lifespan start-up, document       *)
(*                  ingest and deletion (DocumentService, VectorService),  *)
(*                  and one query at a time through the query entrypoint   *)
(*                  (main.query_knowledge_base, RAGService.query_stream,   *)
(*                  LLMService.generate_stream).                           *)
(*  - ConcSpec    : two queries running concurrently on the shared         *)
(*                  RAGService, on a started service holding one document. *)
(*  - ChunkSpec   : DocumentProcessor._split_text_into_chunks and          *)
(*                  _fallback_text_splitting, one loop iteration per step, *)
(*                  for texts and configurations drawn in ChunkInit.       *)
(*  - ChunkFairSpec: ChunkSpec with weak fairness of the loop step.        *)
(*  - SearchSpec  : VectorService.similarity_search called directly, with  *)
(*                  or without a metadata filter, on the stores drawn in   *)
(*                  SearchInit.                                            *)
(*                                                                         *)
(* Scores are held in hundredths (0.7 is 70).  Document and chunk ids (uuid4 in *)
(* the code) are fresh integers and <<document, index>> pairs.             *)
(***************************************************************************)
EXTENDS Integers, Sequences, FiniteSets, TLC

VARIABLES
    started,      \* the lifespan start-up has run (main.lifespan)
    hung,         \* the event loop is blocked in a synchronous loop that never returns
    documents,    \* DocumentService.documents: the registered document ids
    collection,   \* the persistent ChromaDB collection (one for both VectorService instances)
    store,        \* store[i]: VectorService.chunks / .embeddings of instance i, in insertion order
    storageFile,  \* simple_vector_store.json: the snapshot last written
    useChroma,    \* useChroma[i]: VectorService.use_chromadb of instance i
    embDemo,      \* embDemo[i]: EmbeddingService.use_demo of instance i's embedding service
    llmDemo,      \* LLMService.use_demo of rag_service.llm_service
    nextDoc,      \* number of document ids handed out so far
    lastIngest,   \* what the last upload was and how it ended
    deleted,      \* the document ids for which DELETE has answered success
    embOp,        \* the last call made directly on an EmbeddingService, and how it went
    llmOp,        \* the last generate_response call on the LLMService, and how it went
    lastDelete,   \* the last call made directly on DocumentService.delete_document
    mem,          \* an in-memory VectorService call by call: dicts, snapshot, calls in flight
    rpc,          \* rpc[r]: where request r is
    query,        \* query[r]: the request, [topic, top_k]
    results,      \* results[r]: how similarity_search ended for r: [raised, chunks]
    sources,      \* sources[r]: the citation list prepared for request r
    events,       \* events[r]: what query_stream has yielded for request r
    frames,       \* frames[r]: what the entrypoint has written to r's response stream
    httpError,    \* httpError[r]: status of the HTTPException raised for r, 0 if none
    gen,          \* gen[r]: the generate_stream call of request r
    llmCalls,     \* llmCalls[r]: generate_stream calls made for request r
    cpc,          \* chunker: control point
    cin,          \* chunker: the input [text, M, O, tok]
    start_idx,    \* chunker: start_idx
    end_idx,      \* chunker: end_idx of the last iteration
    chunks,       \* chunker: the chunks appended so far, as <<first, last+1>> ranges
    iters         \* chunker: loop iterations run so far, counted modulo IterWrap

sysVars == <<started, hung, documents, collection, store, storageFile, useChroma,
             embDemo, llmDemo, nextDoc, lastIngest, deleted, embOp, llmOp, lastDelete, mem,
             rpc, query,
             results, sources,
             events, frames, httpError, gen, llmCalls>>
chunkVars == <<cpc, cin, start_idx, end_idx, chunks, iters>>
vars == <<sysVars, chunkVars>>

---------------------------------------------------------------------------
(* Bounds of the model *)

MaxDocs == 2            \* document ids generated in one run
MaxFiles == 1           \* files in one upload
MaxRemoteTokens == 2    \* tokens the remote model streams for one call, at most
DemoLen == 2            \* length of the canned demo response, in tokens
MaxTopK == 2            \* top_k values 1..MaxTopK
MaxTextLen == 9         \* chunker: longest text, in tokens (characters for the fallback)
MaxChunkSize == 3       \* chunker: chunk_size values 1..MaxChunkSize
MaxOverlap == 4         \* chunker: chunk_overlap values 0..MaxOverlap
MaxBreaks == 1          \* chunker: newline characters in a text, at most
MaxAppended == 10       \* chunker: chunks kept in the list; later appends are not recorded
IterWrap == 2           \* chunker: the iteration counter wraps at this value
MaxBatch == 2           \* texts handed to one create_embeddings_batch call

(* Program constants *)

chunk_size == 500
chunk_overlap == 50
\* The excerpt of a citation keeps this many characters of the content.
MaxExcerpt == 200
\* page_number of a chunk without a page marker (None).
NoPage == -1
similarity_threshold == 70
demo_threshold == 10
openai_model == "gpt-3.5-turbo"

Instances == {"doc", "rag"}   \* document_service.vector_service, rag_service.vector_service
Requests == {1, 2}            \* the requests that can be in flight at once
Topics == {"a", "b"}

---------------------------------------------------------------------------
(* Sequence helpers *)

Range(s) == {s[i] : i \in 1..Len(s)}

Min2(a, b) == IF a <= b THEN a ELSE b

Max2(a, b) == IF a >= b THEN a ELSE b

Prefix(s, n) == SubSeq(s, 1, Min2(n, Len(s)))

---------------------------------------------------------------------------
(* EmbeddingService (services/embedding_service.py) *)

\* create_embedding on an instance whose use_demo is useDemo, for a text that is
\* blank (empty after strip) or not; remoteOk: the remote call succeeds.
\* The blank-text error is raised inside the try block, so the handler treats
\* it like a remote failure.  Result: raised, the variant of the vector
\* returned, and use_demo afterwards.
create_embedding(useDemo, blank, remoteOk) ==
    IF useDemo
    THEN IF blank THEN [raised |-> TRUE, variant |-> "none", demo |-> TRUE]
         ELSE [raised |-> FALSE, variant |-> "demo", demo |-> TRUE]
    ELSE IF ~blank /\ remoteOk
         THEN [raised |-> FALSE, variant |-> "remote", demo |-> FALSE]
         ELSE [raised |-> FALSE, variant |-> "demo", demo |-> TRUE]

\* EmbeddingService.initialize: the client is built and the provider is probed
\* on every call; a failed probe sets use_demo, nothing clears it.
embedding_initialize(useDemo, probeOk) ==
    [raised |-> FALSE, variants |-> <<>>, demo |-> useDemo \/ ~probeOk, remote |-> TRUE]

\* The per-text path of a failed batch: each of the n texts goes through
\* create_embedding, in order, oks[i] being the provider's answer to text i.
RECURSIVE batch_fallback(_, _, _)
batch_fallback(n, oks, useDemo) ==
    IF n = 0
    THEN [variants |-> <<>>, demo |-> useDemo, remote |-> FALSE]
    ELSE LET e == create_embedding(useDemo, FALSE, Head(oks))
             rest == batch_fallback(n - 1, Tail(oks), e.demo)
         IN [variants |-> <<e.variant>> \o rest.variants,
             demo |-> rest.demo,
             remote |-> ~useDemo \/ rest.remote]

\* EmbeddingService.create_embeddings_batch on texts of which blanks[i] tells
\* whether text i is blank.  The non-blank texts go to the provider in one
\* request, whatever use_demo says; when that request fails each text goes
\* through create_embedding.
create_embeddings_batch(useDemo, blanks, batchOk, oks) ==
    LET n == Cardinality({i \in DOMAIN blanks : ~blanks[i]})
    IN IF blanks = <<>>
       THEN [raised |-> FALSE, variants |-> <<>>, demo |-> useDemo, remote |-> FALSE]
       ELSE IF n = 0
       THEN [raised |-> TRUE, variants |-> <<>>, demo |-> useDemo, remote |-> FALSE]
       ELSE IF batchOk
       THEN [raised |-> FALSE, variants |-> [i \in 1..n |-> "remote"],
             demo |-> useDemo, remote |-> TRUE]
       ELSE LET fb == batch_fallback(n, oks, useDemo)
            IN [raised |-> FALSE, variants |-> fb.variants, demo |-> fb.demo,
                remote |-> TRUE]

\* EmbeddingService.health_check of an initialised service: one
\* create_embedding of a fixed non-blank text.
embedding_health_check(useDemo, remoteOk) ==
    LET e == create_embedding(useDemo, FALSE, remoteOk)
    IN [raised |-> FALSE, variants |-> <<e.variant>>, demo |-> e.demo, remote |-> ~useDemo]

---------------------------------------------------------------------------
(* VectorService (services/vector_service.py) *)

\* The stored form of a chunk: content and metadata, with its embedding.
\* page_number is stored as 0 when the chunk has none; filename and the
\* content (held as its length in characters) are stored as they are.
stored_page(page) == IF page = NoPage THEN 0 ELSE page

StoredChunk(c, variant) ==
    [id |-> c.id, doc |-> c.doc, idx |-> c.idx, topic |-> c.topic,
     blank |-> c.blank, variant |-> variant,
     name |-> c.name, page |-> stored_page(c.page), chars |-> c.chars]

\* The per-chunk loop of _add_chunks_simple / _add_chunks_chromadb: embeds the
\* chunks in order, oks[i] being the outcome of the remote call for chunk i.
\* Stops at the first chunk whose embedding raises; recs are the records built
\* before that.
RECURSIVE EmbedChunks(_, _, _, _)
EmbedChunks(chs, oks, useDemo, recs) ==
    IF chs = <<>> THEN [raised |-> FALSE, recs |-> recs, demo |-> useDemo]
    ELSE LET e == create_embedding(useDemo, Head(chs).blank, Head(oks))
         IN IF e.raised THEN [raised |-> TRUE, recs |-> recs, demo |-> e.demo]
            ELSE EmbedChunks(Tail(chs), Tail(oks), e.demo,
                             Append(recs, StoredChunk(Head(chs), e.variant)))

\* Cosine similarity of the query vector and a stored vector, in hundredths.
\* Vectors of one variant: the same topic scores high, another topic low;
\* vectors of different variants are unrelated.
Cosine(qTopic, qVariant, c) ==
    IF qVariant # c.variant THEN 0
    ELSE IF qVariant = "remote" THEN (IF c.topic = qTopic THEN 90 ELSE 50)
    ELSE (IF c.topic = qTopic THEN 100 ELSE 30)

\* threshold = 0.1 if embedding_service.use_demo else settings.similarity_threshold
Threshold(useDemo) == IF useDemo THEN demo_threshold ELSE similarity_threshold

ResultOf(c, score) ==
    [id |-> c.id, doc |-> c.doc, idx |-> c.idx, topic |-> c.topic, score |-> score,
     name |-> c.name, page |-> c.page, chars |-> c.chars]

\* An insertion that puts an element before the elements of equal score.
RECURSIVE insert_before_equals(_, _)
insert_before_equals(sorted, r) ==
    IF sorted = <<>> THEN <<r>>
    ELSE IF Head(sorted).score > r.score
         THEN <<Head(sorted)>> \o insert_before_equals(Tail(sorted), r)
         ELSE <<r>> \o sorted

\* list.sort(key=score, reverse=True): stable, so equal scores keep their order.
RECURSIVE InsertDesc(_, _)
InsertDesc(sorted, r) ==
    IF sorted = <<>> THEN <<r>>
    ELSE IF Head(sorted).score >= r.score
         THEN <<Head(sorted)>> \o InsertDesc(Tail(sorted), r)
         ELSE <<r>> \o sorted

RECURSIVE SortDesc(_)
SortDesc(s) ==
    IF s = <<>> THEN <<>>
    ELSE InsertDesc(SortDesc(SubSeq(s, 1, Len(s) - 1)), s[Len(s)])

\* A filter that keeps the scores below the threshold.
RECURSIVE filter_below(_, _)
filter_below(s, threshold) ==
    IF s = <<>> THEN <<>>
    ELSE IF Head(s).score < threshold
         THEN <<Head(s)>> \o filter_below(Tail(s), threshold)
         ELSE filter_below(Tail(s), threshold)

RECURSIVE FilterScore(_, _)
FilterScore(s, threshold) ==
    IF s = <<>> THEN <<>>
    ELSE IF Head(s).score >= threshold
         THEN <<Head(s)>> \o FilterScore(Tail(s), threshold)
         ELSE FilterScore(Tail(s), threshold)

\* A metadata filter is held as the document_id it asks for, 0 for no filter
\* (None or an empty dict).
NoFilter == 0

MatchesFilter(c, flt) == flt = NoFilter \/ c.doc = flt

\* The chunks of st that the filter lets through, in their order.
RECURSIVE Filtered(_, _)
Filtered(st, flt) ==
    IF st = <<>> THEN <<>>
    ELSE IF MatchesFilter(Head(st), flt) THEN <<Head(st)>> \o Filtered(Tail(st), flt)
         ELSE Filtered(Tail(st), flt)

\* A simple search that leaves the results in the order of the store.
search_simple_unsorted(st, useDemo, q, remoteOk) ==
    IF st = <<>> THEN [raised |-> FALSE, res |-> <<>>, demo |-> useDemo]
    ELSE LET e == create_embedding(useDemo, FALSE, remoteOk)
             kept == Filtered(st, q.filter)
             scored == [i \in 1..Len(kept) |->
                          ResultOf(kept[i], Cosine(q.topic, e.variant, kept[i]))]
         IN [raised |-> FALSE,
             res |-> Prefix(FilterScore(scored, Threshold(e.demo)), q.top_k),
             demo |-> e.demo]

\* _search_simple: an empty store answers [] before the query is embedded;
\* otherwise every chunk the filter lets through is scored, those below the
\* threshold are dropped, the rest is sorted, and the first top_k are returned.
\* The loop and the sort of _search_simple for a query vector of variant
\* qVariant and threshold t: filter, score, threshold, sort, top_k.
simple_results(st, qVariant, q, t) ==
    LET kept == Filtered(st, q.filter)
        scored == [i \in 1..Len(kept) |->
                     ResultOf(kept[i], Cosine(q.topic, qVariant, kept[i]))]
    IN Prefix(SortDesc(FilterScore(scored, t)), q.top_k)

search_simple(st, useDemo, q, remoteOk) ==
    IF st = <<>> THEN [raised |-> FALSE, res |-> <<>>, demo |-> useDemo]
    ELSE LET e == create_embedding(useDemo, FALSE, remoteOk)
         IN [raised |-> FALSE,
             res |-> simple_results(st, e.variant, q, Threshold(e.demo)),
             demo |-> e.demo]

\* collection.query returns the n_results nearest items by squared L2 distance
\* (the collection is created without a distance setting); for unit vectors
\* that distance is 2 - 2 cos, and the code's score is 1 - distance.
ChromaScore(cos) == 2 * cos - 100

\* _search_chromadb: the query is embedded, the index returns the top_k
\* nearest of the items the where filter lets through, and those below the
\* threshold are dropped afterwards.  queryOk: collection.query succeeds.
chroma_results(coll, qVariant, q, t) ==
    LET kept == Filtered(coll, q.filter)
        scored == [i \in 1..Len(kept) |->
                     ResultOf(kept[i], ChromaScore(Cosine(q.topic, qVariant, kept[i])))]
    IN FilterScore(Prefix(SortDesc(scored), q.top_k), t)

search_chromadb(coll, useDemo, q, remoteOk, queryOk) ==
    LET e == create_embedding(useDemo, FALSE, remoteOk)
    IN IF ~queryOk THEN [raised |-> TRUE, res |-> <<>>, demo |-> e.demo]
       ELSE [raised |-> FALSE,
             res |-> chroma_results(coll, e.variant, q, Threshold(e.demo)),
             demo |-> e.demo]

\* SimpleVectorService.similarity_search (services/simple_vector_service.py):
\* the in-memory search, every score compared with settings.similarity_threshold.
simple_service_search(st, useDemo, q, remoteOk) ==
    IF st = <<>> THEN [raised |-> FALSE, res |-> <<>>, demo |-> useDemo]
    ELSE LET e == create_embedding(useDemo, FALSE, remoteOk)
             kept == Filtered(st, q.filter)
             scored == [i \in 1..Len(kept) |->
                          ResultOf(kept[i], Cosine(q.topic, e.variant, kept[i]))]
         IN [raised |-> FALSE,
             res |-> Prefix(SortDesc(FilterScore(scored, similarity_threshold)), q.top_k),
             demo |-> e.demo]

\* A similarity_search that asks the persistent index whatever use_chromadb says.
similarity_search_chromadb_only(i, q, remoteOk, queryOk) ==
    search_chromadb(collection, embDemo[i], q, remoteOk, queryOk)

\* similarity_search of instance i in the current state.
similarity_search(i, q, remoteOk, queryOk) ==
    IF useChroma[i] THEN search_chromadb(collection, embDemo[i], q, remoteOk, queryOk)
    ELSE search_simple(store[i], embDemo[i], q, remoteOk)

---------------------------------------------------------------------------
(* DocumentProcessor: the splitters (utils/document_processor.py) *)

\* Python's s[i:j] on a sequence of length n: the bounds it really uses.
PyIndex(i, n) == IF i < 0 THEN Max2(i + n, 0) ELSE Min2(i, n)

PySlice(i, j, n) == <<PyIndex(i, n), Max2(PyIndex(i, n), PyIndex(j, n))>>

SliceLen(r) == r[2] - r[1]

\* One iteration of the while loop of _split_text_into_chunks, entered with
\* start_idx = start on T tokens: the chunk appended, the new start_idx and
\* whether the "prevent infinite loop" test breaks out.
TokenIteration(start, T, M, O) ==
    LET e == Min2(start + M, T)
    IN [end |-> e, chunk |-> PySlice(start, e, T), next |-> e - O,
        brk |-> (e - O >= e)]

\* The whole loop.  next = min(start + M, T) - O does not decrease when start
\* grows, so an iteration that continues without advancing start_idx is
\* followed by iterations that never advance it either: the loop does not
\* terminate, which is reported as diverges.
RECURSIVE TokenLoop(_, _, _, _, _)
TokenLoop(start, acc, T, M, O) ==
    IF ~(start < T) THEN [diverges |-> FALSE, chunks |-> acc]
    ELSE LET it == TokenIteration(start, T, M, O)
         IN IF it.brk THEN [diverges |-> FALSE, chunks |-> Append(acc, it.chunk)]
            ELSE IF it.next <= start
                 THEN [diverges |-> TRUE, chunks |-> Append(acc, it.chunk)]
                 ELSE TokenLoop(it.next, Append(acc, it.chunk), T, M, O)

\* _split_text_into_chunks on a text of T tokens that the tokenizer accepts.
split_text_into_chunks(T, M, O) ==
    IF T <= M THEN [diverges |-> FALSE, chunks |-> << <<0, T>> >>]
    ELSE TokenLoop(0, <<>>, T, M, O)

\* The break strings of _fallback_text_splitting, in the order they are tried.
BreakChars == << <<"\n", "\n">>, <<"\n">>, <<".", " ">>, <<"!", " ">>, <<"?", " ">> >>

\* str.rfind: the highest index (from 0) at which sub occurs in s, or -1.
RFind(s, sub) ==
    LET hits == {i \in 0..(Len(s) - Len(sub)) : SubSeq(s, i + 1, i + Len(sub)) = sub}
    IN IF hits = {} THEN -1 ELSE CHOOSE i \in hits : \A j \in hits : j <= i

\* The for loop over the break strings: the length chunk_text is cut to.  The
\* first break string found beyond 70% of the chunk decides.
RECURSIVE CutLength(_, _)
CutLength(chunk_text, brks) ==
    IF brks = <<>> THEN Len(chunk_text)
    ELSE LET last_break == RFind(chunk_text, Head(brks))
         IN IF 10 * last_break > 7 * Len(chunk_text)
            THEN last_break + Len(Head(brks))
            ELSE CutLength(chunk_text, Tail(brks))

\* One iteration of the while loop of _fallback_text_splitting.
FallbackIteration(start, text, M, O) ==
    LET L == Len(text)
        e == Min2(start + M * 4, L)
        r == PySlice(start, e, L)
        chunk_text == SubSeq(text, r[1] + 1, r[2])
        n == IF e < L THEN CutLength(chunk_text, BreakChars) ELSE Len(chunk_text)
        next == start + n - O * 4
    IN [end |-> e, chunk |-> <<r[1], r[1] + n>>, next |-> next, brk |-> (next >= e)]

---------------------------------------------------------------------------
(* The splitters, one loop iteration per step *)

\* Texts: runs of "a" with at most MaxBreaks newline characters.
TextsOfLen(n) ==
    {t \in [1..n -> {"a", "\n"}] : Cardinality({i \in 1..n : t[i] = "\n"}) <= MaxBreaks}

Texts == UNION {TextsOfLen(n) : n \in 0..MaxTextLen}

\* tok: tokenizer.encode accepts the text (it raises on a text that holds a
\* special-token string, which sends the splitter to the fallback).  A text of
\* n characters is taken to encode to n tokens.
ChunkInputs == [text : Texts, M : 1..MaxChunkSize, O : 0..MaxOverlap, tok : BOOLEAN]

NumTokens == Len(cin.text)

\* The list of chunks, which the model keeps up to MaxAppended entries.
Appended(c) == IF Len(chunks) < MaxAppended THEN Append(chunks, c) ELSE chunks

\* Below -(n + window) every iteration appends an empty chunk and moves
\* start_idx down by the same amount, so those values are kept as one.
Floor(next, n, window) == Max2(next, 0 - (n + window))

\* _split_text_into_chunks up to the loop: encode, then the short-text return.
SplitEnter ==
    /\ cpc = "start"
    /\ IF ~cin.tok
       THEN /\ cpc' = "fallback"
            /\ chunks' = <<>>
       ELSE IF NumTokens <= cin.M
       THEN /\ cpc' = "done"
            /\ chunks' = << <<0, NumTokens>> >>
       ELSE /\ cpc' = "loop"
            /\ chunks' = <<>>
    /\ start_idx' = 0
    /\ end_idx' = 0
    /\ iters' = 0
    /\ UNCHANGED <<cin, sysVars>>

\* One pass through the while loop of _split_text_into_chunks.
SplitIterate ==
    /\ cpc = "loop"
    /\ IF ~(start_idx < NumTokens)
       THEN /\ cpc' = "done"
            /\ UNCHANGED <<start_idx, end_idx, chunks, iters>>
       ELSE LET it == TokenIteration(start_idx, NumTokens, cin.M, cin.O)
            IN /\ chunks' = Appended(it.chunk)
               /\ end_idx' = it.end
               /\ start_idx' = Floor(it.next, NumTokens, cin.M)
               /\ iters' = (iters + 1) % IterWrap
               /\ cpc' = IF it.brk THEN "done" ELSE "loop"
    /\ UNCHANGED <<cin, sysVars>>

\* One pass through the while loop of _fallback_text_splitting.
FallbackIterate ==
    /\ cpc = "fallback"
    /\ IF ~(start_idx < Len(cin.text))
       THEN /\ cpc' = "done"
            /\ UNCHANGED <<start_idx, end_idx, chunks, iters>>
       ELSE LET it == FallbackIteration(start_idx, cin.text, cin.M, cin.O)
            IN /\ chunks' = Appended(it.chunk)
               /\ end_idx' = it.end
               /\ start_idx' = Floor(it.next, Len(cin.text), cin.M * 4)
               /\ iters' = (iters + 1) % IterWrap
               /\ cpc' = IF it.brk THEN "done" ELSE "fallback"
    /\ UNCHANGED <<cin, sysVars>>

ChunkNext == SplitEnter \/ SplitIterate \/ FallbackIterate

---------------------------------------------------------------------------
(* DocumentProcessor.create_chunks and DocumentService (ingest, delete) *)

\* Token counts of the documents uploaded: within chunk_size, and longer.
DocTokens == {chunk_size, chunk_size + 1}

\* An uploaded file: what it is, and how the remote calls made for it end.
\*   bad_ext, too_large : _validate_file rejects it
\*   no_text            : extract_text raises
\*   blank              : extract_text returns whitespace only
\*   text               : extract_text returns ntok tokens about topic
\* Every file is called FileName, has no page marker and gives chunks of
\* FileChars characters.
FileName == "notes.txt"
FileChars == MaxExcerpt + 50

Files ==
    [kind : {"bad_ext", "too_large", "no_text", "blank"}, ntok : {1}, topic : {"a"},
     remoteOk : {TRUE}, addOk : {TRUE}]
    \cup [kind : {"text"}, ntok : DocTokens, topic : Topics,
          remoteOk : BOOLEAN, addOk : BOOLEAN]

\* The loop of create_chunks over the chunks of the splitter: one ChunkInfo
\* per chunk, chunk_index from 0; does not return when the splitter does not.
chunk_infos(f, d) ==
    LET sp == split_text_into_chunks(f.ntok, chunk_size, chunk_overlap)
    IN [raised |-> FALSE, diverges |-> sp.diverges,
        chunks |-> [i \in 1..Len(sp.chunks) |->
                      [id |-> <<d, i - 1>>, doc |-> d, idx |-> i - 1,
                       topic |-> f.topic, blank |-> f.kind = "blank",
                       name |-> FileName, page |-> NoPage, chars |-> FileChars]]]

create_chunks_without_empty_test(f, d) == chunk_infos(f, d)

\* create_chunks for the content of file f, as document d: content that is
\* empty after strip() raises before any ChunkInfo is built.
create_chunks(f, d) ==
    IF f.kind = "blank"
    THEN [raised |-> TRUE, diverges |-> FALSE, chunks |-> <<>>]
    ELSE chunk_infos(f, d)

\* VectorService.add_chunks of the DocumentService's instance, on the part S of
\* the state that ingest changes.  ChromaDB: the chunks are embedded first and
\* added in one call (addOk: that call succeeds).  In-memory: each chunk is
\* stored as soon as it is embedded, and the snapshot is written at the end.
add_chunks(S, chs, remoteOk, addOk) ==
    IF chs = <<>> THEN [raised |-> FALSE, S |-> S]
    ELSE LET e == EmbedChunks(chs, [i \in 1..Len(chs) |-> remoteOk], S.embDemo, <<>>)
         IN IF useChroma["doc"]
            THEN IF e.raised \/ ~addOk
                 THEN [raised |-> TRUE, S |-> [S EXCEPT !.embDemo = e.demo]]
                 ELSE [raised |-> FALSE,
                       S |-> [S EXCEPT !.embDemo = e.demo,
                                       !.collection = S.collection \o e.recs]]
            ELSE IF e.raised
                 THEN [raised |-> TRUE,
                       S |-> [S EXCEPT !.embDemo = e.demo, !.store = S.store \o e.recs]]
                 ELSE [raised |-> FALSE,
                       S |-> [S EXCEPT !.embDemo = e.demo, !.store = S.store \o e.recs,
                                       !.storageFile = S.store \o e.recs]]

\* _process_single_document: validation, a fresh document id, extraction,
\* chunking, storing, registration.  id is 0 when no id was generated.
process_single_document(S, f) ==
    IF f.kind \in {"bad_ext", "too_large"}
    THEN [ok |-> FALSE, id |-> 0, S |-> S]
    ELSE LET d == S.nextDoc + 1
             S1 == [S EXCEPT !.nextDoc = d]
         IN IF f.kind = "no_text" THEN [ok |-> FALSE, id |-> d, S |-> S1]
            ELSE LET cc == create_chunks(f, d)
                 IN IF cc.raised THEN [ok |-> FALSE, id |-> d, S |-> S1]
                    ELSE IF cc.diverges
                    THEN [ok |-> FALSE, id |-> d, S |-> [S1 EXCEPT !.hung = TRUE]]
                    ELSE LET ac == add_chunks(S1, cc.chunks, f.remoteOk, f.addOk)
                         IN IF ac.raised THEN [ok |-> FALSE, id |-> d, S |-> ac.S]
                            ELSE [ok |-> TRUE, id |-> d,
                                  S |-> [ac.S EXCEPT !.documents = @ \cup {d}]]

\* A loop over the files that ends at the first file that fails.
RECURSIVE process_documents_until_failure(_, _, _, _)
process_documents_until_failure(S, files, ids, processed) ==
    IF files = <<>> \/ S.hung
    THEN [S |-> S, ids |-> ids, processed |-> processed]
    ELSE LET r == process_single_document(S, Head(files))
         IN IF r.ok
            THEN process_documents_until_failure(r.S, Tail(files), Append(ids, r.id),
                                                 Append(processed, r.id))
            ELSE [S |-> r.S, ids |-> Append(ids, r.id), processed |-> processed]

\* process_documents: the files in order; a failing file is skipped.  ids are
\* the document ids generated per file, processed those of the files that
\* succeeded.  Nothing runs once the event loop is blocked.
RECURSIVE process_documents(_, _, _, _)
process_documents(S, files, ids, processed) ==
    IF files = <<>> \/ S.hung
    THEN [S |-> S, ids |-> ids, processed |-> processed]
    ELSE LET r == process_single_document(S, Head(files))
         IN process_documents(r.S, Tail(files), Append(ids, r.id),
                              IF r.ok THEN Append(processed, r.id) ELSE processed)

---------------------------------------------------------------------------
(* The running service: start-up, upload, delete *)

NoEmbOp ==
    [inst |-> "doc", op |-> "none", blanks |-> <<>>, before |-> FALSE, remote |-> FALSE,
     raised |-> FALSE, variants |-> <<>>]
NoDelete == [id |-> 0, found |-> FALSE, raised |-> FALSE]

\* The in-memory VectorService seen call by call.  chunks and embeddings are
\* the two dicts (their entries in insertion order), file is the snapshot
\* (valid: it parses), calls[c] is where call c of add_chunks stands, last is
\* the call that ended last.
Calls == Requests
NoCall == [op |-> "none", batch |-> <<>>, at |-> 0]
NoFile == [valid |-> TRUE, chunks |-> <<>>, embeddings |-> <<>>]
NoLast == [op |-> "none", raised |-> FALSE, missing |-> FALSE, result |-> <<>>]
NoMem ==
    [chunks |-> <<>>, embeddings |-> <<>>, file |-> NoFile,
     calls |-> [c \in Calls |-> NoCall], last |-> NoLast]
NoLlmOp == [op |-> "none", blank |-> FALSE, before |-> FALSE, remote |-> FALSE, raised |-> FALSE]
NoIngest == [files |-> <<>>, ids |-> <<>>, processed |-> <<>>, raised |-> FALSE]
NoQuery == [topic |-> "a", top_k |-> 1, filter |-> NoFilter]
NoGen ==
    [phase |-> "none", prompt |-> "none", produced |-> 0, demo |-> 0, failed |-> FALSE,
     cancelled |-> FALSE]
NoResults == [raised |-> FALSE, chunks |-> <<>>]

reqVars == <<rpc, query, results, sources, events, frames, httpError, gen, llmCalls>>

\* The keys of the metadata stored with a chunk (_add_chunks_simple,
\* _add_chunks_chromadb, create_chunks).
MetadataKeys ==
    {"document_id", "filename", "page_number", "chunk_index", "chunk_size",
     "original_length"}

\* get_all_documents: one DocumentInfo per document_id of the stored chunks.
\* DocumentInfo is built with file_type = metadata.get('file_type', 'unknown'),
\* which DocumentInfo rejects, and the error is answered with [].
get_all_documents(chs) ==
    IF chs # <<>> /\ "file_type" \notin MetadataKeys THEN {}
    ELSE {chs[i].doc : i \in 1..Len(chs)}

NoRequests ==
    /\ rpc = [r \in Requests |-> "idle"]
    /\ query = [r \in Requests |-> NoQuery]
    /\ results = [r \in Requests |-> NoResults]
    /\ sources = [r \in Requests |-> <<>>]
    /\ events = [r \in Requests |-> <<>>]
    /\ frames = [r \in Requests |-> <<>>]
    /\ httpError = [r \in Requests |-> 0]
    /\ gen = [r \in Requests |-> NoGen]
    /\ llmCalls = [r \in Requests |-> 0]

\* After construction: nothing initialised, nothing stored.
SysInit ==
    /\ started = FALSE
    /\ hung = FALSE
    /\ documents = {}
    /\ collection = <<>>
    /\ store = [i \in Instances |-> <<>>]
    /\ storageFile = <<>>
    /\ useChroma = [i \in Instances |-> TRUE]
    /\ embDemo = [i \in Instances |-> FALSE]
    /\ llmDemo = FALSE
    /\ nextDoc = 0
    /\ lastIngest = NoIngest
    /\ deleted = {}
    /\ embOp = NoEmbOp
    /\ llmOp = NoLlmOp
    /\ lastDelete = NoDelete
    /\ mem = NoMem
    /\ NoRequests

ChunkOff ==
    /\ cpc = "off"
    /\ cin = [text |-> <<>>, M |-> 1, O |-> 0, tok |-> TRUE]
    /\ start_idx = 0
    /\ end_idx = 0
    /\ chunks = <<>>
    /\ iters = 0

Init == SysInit /\ ChunkOff

\* main.lifespan: DocumentService.initialize, then RAGService.initialize.
\* Each VectorService probes its embedding provider (embProbe[i]: the probe
\* succeeds) and opens ChromaDB (chroma[i]: ChromaDB is importable and opens),
\* falling back to the in-memory store loaded from the snapshot; LLMService
\* probes the remote model (llmProbe).
Lifespan ==
    /\ ~started
    /\ \E embProbe \in [Instances -> BOOLEAN], chroma \in [Instances -> BOOLEAN],
          llmProbe \in BOOLEAN :
          /\ embDemo' = [i \in Instances |-> ~embProbe[i]]
          /\ useChroma' = chroma
          /\ store' = [i \in Instances |-> IF chroma[i] THEN store[i] ELSE storageFile]
          /\ documents' = get_all_documents(IF chroma["doc"] THEN collection ELSE storageFile)
          /\ llmDemo' = ~llmProbe
    /\ started' = TRUE
    /\ UNCHANGED <<hung, collection, storageFile, nextDoc, lastIngest, deleted, embOp,
                   llmOp, lastDelete, mem, reqVars, chunkVars>>

IngestState ==
    [documents |-> documents, collection |-> collection, store |-> store["doc"],
     storageFile |-> storageFile, embDemo |-> embDemo["doc"], nextDoc |-> nextDoc,
     hung |-> hung]

\* The outcomes of remote calls that can make a difference in this state.
RelevantOutcomes(f) ==
    /\ embDemo["doc"] => f.remoteOk
    /\ ~useChroma["doc"] => f.addOk

\* POST /api/upload with a list of files: DocumentService.process_documents.
Upload ==
    /\ started /\ ~hung
    /\ \E n \in 1..MaxFiles : \E files \in [1..n -> Files] :
          /\ nextDoc + n <= MaxDocs
          /\ \A i \in 1..n : RelevantOutcomes(files[i])
          /\ LET r == process_documents(IngestState, files, <<>>, <<>>)
             IN /\ documents' = r.S.documents
                /\ collection' = r.S.collection
                /\ store' = [store EXCEPT !["doc"] = r.S.store]
                /\ storageFile' = r.S.storageFile
                /\ embDemo' = [embDemo EXCEPT !["doc"] = r.S.embDemo]
                /\ nextDoc' = r.S.nextDoc
                /\ hung' = r.S.hung
                /\ lastIngest' = [files |-> [i \in 1..n |-> files[i].kind], ids |-> r.ids,
                                  processed |-> r.processed,
                                  raised |-> (~r.S.hung /\ r.processed = <<>>)]
    /\ UNCHANGED <<started, useChroma, llmDemo, deleted, embOp, llmOp, lastDelete, mem, reqVars,
                   chunkVars>>

\* A delete that leaves the chunks where they are.
delete_chromadb_keeps_chunks(coll, d) == coll

\* _delete_chromadb: the items whose document_id is d are removed.
delete_chromadb(coll, d) == SelectSeq(coll, LAMBDA c : c.doc # d)

\* _delete_simple: the chunks (and embeddings) whose document_id is d are
\* removed from the instance's own dicts.
delete_simple(st, d) == SelectSeq(st, LAMBDA c : c.doc # d)

\* DELETE /api/documents/{id}: DocumentService.delete_document.  An id that is
\* not registered is answered "not found"; otherwise the chunks are removed
\* from the store of the DocumentService's instance (deleteOk: the ChromaDB
\* calls succeed; the in-memory path then writes the snapshot), the id is
\* removed from the registry and success is answered.
Delete ==
    /\ started /\ ~hung
    /\ \E d \in 1..MaxDocs, deleteOk \in BOOLEAN :
          /\ d \in documents
          /\ IF useChroma["doc"]
             THEN /\ collection' = IF deleteOk THEN delete_chromadb(collection, d)
                                   ELSE collection
                  /\ documents' = IF deleteOk THEN documents \ {d} ELSE documents
                  /\ deleted' = IF deleteOk THEN deleted \cup {d} ELSE deleted
                  /\ UNCHANGED <<store, storageFile>>
             ELSE /\ deleteOk
                  /\ store' = [store EXCEPT !["doc"] = delete_simple(@, d)]
                  /\ storageFile' = delete_simple(store["doc"], d)
                  /\ documents' = documents \ {d}
                  /\ deleted' = deleted \cup {d}
                  /\ UNCHANGED collection
    /\ UNCHANGED <<started, hung, useChroma, embDemo, llmDemo, nextDoc, lastIngest,
                   embOp, llmOp, lastDelete, mem, reqVars, chunkVars>>

---------------------------------------------------------------------------
(* The query entrypoint and RAGService.query_stream *)

\* rag_service passes the query text and top_k, never a metadata filter.
Queries == [topic : Topics, top_k : 1..MaxTopK, filter : {NoFilter}]

\* The dicts yielded by query_stream, with the keys the code gives them; a key
\* a dict does not have is held as "" or <<>>.
Event(type, message, content, srcs, model) ==
    [type |-> type, message |-> message, content |-> content, sources |-> srcs,
     model_used |-> model]

StatusSearching == Event("status", "Searching knowledge base...", <<>>, <<>>, "")
StatusGenerating == Event("status", "Generating response...", <<>>, <<>>, "")
ErrorNoInfo ==
    Event("error", "No relevant information found in the knowledge base.", <<>>, <<>>, "")
ErrorException ==
    Event("error", "An error occurred while processing your query", <<>>, <<>>, "")
TokenEvent(variant, i) == Event("token", "", <<variant, i>>, <<>>, "")
SourcesEvent(srcs, model) == Event("sources", "", <<>>, srcs, model)
\* The frame of the entrypoint's own except clause, written in place of the
\* end frame.
StreamingErrorFrame == Event("error", "Error during streaming", <<>>, <<>>, "")
\* The frame the entrypoint writes after the last event of query_stream.
EndFrame == Event("end", "", <<>>, <<>>, "")

\* A yield of query_stream for request r: the entrypoint writes it to the
\* response at once.
\* A yield that buffers: a token that follows a token replaces it.
yield_merging_tokens(r, e) ==
    LET merge == /\ e.type = "token"
                 /\ events[r] # <<>>
                 /\ events[r][Len(events[r])].type = "token"
    IN /\ events' = [events EXCEPT ![r] = IF merge THEN [@ EXCEPT ![Len(@)] = e]
                                           ELSE Append(@, e)]
       /\ frames' = [frames EXCEPT ![r] = Append(@, e)]

Yield(r, e) ==
    /\ events' = [events EXCEPT ![r] = Append(@, e)]
    /\ frames' = [frames EXCEPT ![r] = Append(@, e)]

\* What the ingest side owns: no step of a request touches it.
ServiceVarsKept == <<started, hung, documents, collection, store, storageFile,
                     useChroma, nextDoc, lastIngest, deleted, embOp, llmOp, lastDelete, mem,
                     chunkVars>>

\* A citation list that keeps only the first retrieved chunk.
\* content[:200] + "..." if len(content) > 200 else content, as the number of
\* characters of the content it keeps and whether the marker follows them.
excerpt(chars) ==
    IF chars > MaxExcerpt THEN [kept |-> MaxExcerpt, ellipsis |-> TRUE]
    ELSE [kept |-> chars, ellipsis |-> FALSE]

\* The SourceCitation of one retrieved chunk.
citation(c) ==
    [document_id |-> c.doc, document_name |-> c.name, page_number |-> c.page,
     chunk_index |-> c.idx, relevance_score |-> c.score, excerpt |-> excerpt(c.chars)]

prepare_sources_first_only(res) == [i \in 1..Min2(1, Len(res)) |-> citation(res[i])]

\* A citation list in the reverse of the rank order.
prepare_sources_reversed(res) == [i \in 1..Len(res) |-> citation(res[Len(res) + 1 - i])]

\* _prepare_sources: one citation per retrieved chunk, in the same order.
prepare_sources(res) == [i \in 1..Len(res) |-> citation(res[i])]

\* _prepare_context: one part per retrieved chunk, numbered from 1, with the
\* filename and the page of its metadata and its content.
prepare_context(res) ==
    [i \in 1..Len(res) |->
       [source |-> i, name |-> res[i].name, page |-> res[i].page, content |-> res[i].id]]

\* create_demo_sources: three fixed citations (demo-doc-1..3, written here as
\* the document ids -1..-3, which no uploaded document has).
create_demo_sources ==
    << [document_id |-> -1, document_name |-> "AI_Research_Paper.pdf", page_number |-> 5,
        chunk_index |-> 12, relevance_score |-> 92,
        excerpt |-> [kept |-> 188, ellipsis |-> FALSE]],
       [document_id |-> -2, document_name |-> "Machine_Learning_Guide.pdf",
        page_number |-> 23, chunk_index |-> 45, relevance_score |-> 87,
        excerpt |-> [kept |-> 171, ellipsis |-> FALSE]],
       [document_id |-> -3, document_name |-> "Technical_Documentation.pdf",
        page_number |-> 8, chunk_index |-> 19, relevance_score |-> 83,
        excerpt |-> [kept |-> 167, ellipsis |-> FALSE]] >>

\* An entrypoint without the registry test.
registry_allows_any(docs) == TRUE

\* The registry test of query_knowledge_base: no document, no stream.
registry_allows_query(docs) == docs # {}

\* query_knowledge_base up to the StreamingResponse: with an empty registry the
\* HTTPException(400) is raised inside the try block and re-raised as 500 by
\* the handler for Exception; no stream is opened.
QueryEntry(r) ==
    /\ started /\ ~hung
    /\ rpc[r] = "idle"
    /\ \E q \in Queries : query' = [query EXCEPT ![r] = q]
    /\ IF registry_allows_query(documents)
       THEN /\ httpError' = [httpError EXCEPT ![r] = 0]
            /\ rpc' = [rpc EXCEPT ![r] = "stream"]
       ELSE /\ httpError' = [httpError EXCEPT ![r] = 500]
            /\ rpc' = [rpc EXCEPT ![r] = "rejected"]
    /\ UNCHANGED <<embDemo, llmDemo, results, sources, events, frames, gen, llmCalls>>
    /\ UNCHANGED ServiceVarsKept

\* query_stream, first yield.
StreamStart(r) ==
    /\ ~hung
    /\ rpc[r] = "stream"
    /\ Yield(r, StatusSearching)
    /\ rpc' = [rpc EXCEPT ![r] = "searching"]
    /\ UNCHANGED <<embDemo, llmDemo, query, results, sources, httpError, gen, llmCalls>>
    /\ UNCHANGED ServiceVarsKept

\* Variants of the branch after the search: one that generates whenever there
\* are no chunks, one without the demo branch, one that takes a failed search
\* for an empty result.
after_search_generates_without_chunks(sr, useDemo) ==
    IF sr.raised
    THEN [event |-> ErrorException, pc |-> "closing", sources |-> <<>>]
    ELSE IF sr.res = <<>>
    THEN [event |-> StatusGenerating, pc |-> "generating_bare", sources |-> <<>>]
    ELSE [event |-> StatusGenerating, pc |-> "generating",
          sources |-> prepare_sources(sr.res)]

after_search_without_demo_branch(sr, useDemo) ==
    IF sr.raised
    THEN [event |-> ErrorException, pc |-> "closing", sources |-> <<>>]
    ELSE IF sr.res = <<>>
    THEN [event |-> ErrorNoInfo, pc |-> "closing", sources |-> <<>>]
    ELSE [event |-> StatusGenerating, pc |-> "generating",
          sources |-> prepare_sources(sr.res)]

after_search_ignores_raise(sr, useDemo) ==
    IF sr.res = <<>>
    THEN IF useDemo
         THEN [event |-> StatusGenerating, pc |-> "generating_bare", sources |-> <<>>]
         ELSE [event |-> ErrorNoInfo, pc |-> "closing", sources |-> <<>>]
    ELSE [event |-> StatusGenerating, pc |-> "generating",
          sources |-> prepare_sources(sr.res)]

\* A variant that goes on to generate after the "no relevant information"
\* error instead of returning.
after_search_error_without_return(sr, useDemo) ==
    IF sr.raised
    THEN [event |-> ErrorException, pc |-> "closing", sources |-> <<>>]
    ELSE IF sr.res = <<>>
    THEN IF useDemo
         THEN [event |-> StatusGenerating, pc |-> "generating_bare", sources |-> <<>>]
         ELSE [event |-> ErrorNoInfo, pc |-> "generating", sources |-> <<>>]
    ELSE [event |-> StatusGenerating, pc |-> "generating",
          sources |-> prepare_sources(sr.res)]

\* What query_stream does with the outcome sr of the similarity search: the
\* event it yields next, where it continues, and the citations it prepared.
\* "generating_bare" is the branch taken without retrieved chunks in demo mode.
after_search(sr, useDemo) ==
    IF sr.raised
    THEN [event |-> ErrorException, pc |-> "closing", sources |-> <<>>]
    ELSE IF sr.res = <<>>
    THEN IF useDemo
         THEN [event |-> StatusGenerating, pc |-> "generating_bare", sources |-> <<>>]
         ELSE [event |-> ErrorNoInfo, pc |-> "closing", sources |-> <<>>]
    ELSE [event |-> StatusGenerating, pc |-> "generating",
          sources |-> prepare_sources(sr.res)]

\* query_stream from the similarity search to its next yield.
Search(r) ==
    /\ ~hung
    /\ rpc[r] = "searching"
    /\ \E remoteOk \in BOOLEAN, queryOk \in BOOLEAN :
          /\ embDemo["rag"] => remoteOk
          /\ ~useChroma["rag"] => queryOk
          /\ LET sr == similarity_search("rag", query[r], remoteOk, queryOk)
                 a == after_search(sr, llmDemo)
             IN /\ embDemo' = [embDemo EXCEPT !["rag"] = sr.demo]
                /\ results' = [results EXCEPT ![r] = [raised |-> sr.raised, chunks |-> sr.res]]
                /\ sources' = [sources EXCEPT ![r] = a.sources]
                /\ Yield(r, a.event)
                /\ rpc' = [rpc EXCEPT ![r] = a.pc]
    /\ UNCHANGED <<llmDemo, query, httpError, gen, llmCalls>>
    /\ UNCHANGED ServiceVarsKept

\* The two places of query_stream that run generate_stream.
Generating == {"generating", "generating_bare"}

\* generate_stream is called, with the RAG prompt built from the context or,
\* in the branch without chunks, with the prompt built from the query alone:
\* in local-fallback mode it streams the demo response, otherwise it opens the
\* remote stream.
GenStart(r) ==
    /\ ~hung
    /\ rpc[r] \in Generating /\ gen[r].phase = "none"
    /\ llmCalls' = [llmCalls EXCEPT ![r] = @ + 1]
    /\ gen' = [gen EXCEPT ![r].phase = IF llmDemo THEN "demo" ELSE "remote",
                          ![r].prompt = IF rpc[r] = "generating_bare" THEN "bare" ELSE "rag"]
    /\ UNCHANGED <<embDemo, llmDemo, rpc, query, results, sources, events, frames, httpError>>
    /\ UNCHANGED ServiceVarsKept

\* The remote stream delivers a token; query_stream yields it.
GenRemoteToken(r) ==
    /\ ~hung
    /\ rpc[r] \in Generating /\ gen[r].phase = "remote"
    /\ gen[r].produced < MaxRemoteTokens
    /\ gen' = [gen EXCEPT ![r].produced = @ + 1]
    /\ Yield(r, TokenEvent("remote", gen[r].produced + 1))
    /\ UNCHANGED <<embDemo, llmDemo, rpc, query, results, sources, httpError, llmCalls>>
    /\ UNCHANGED ServiceVarsKept

\* The remote stream ends normally.
GenRemoteEnd(r) ==
    /\ ~hung
    /\ rpc[r] \in Generating /\ gen[r].phase = "remote"
    /\ gen' = [gen EXCEPT ![r].phase = "done"]
    /\ UNCHANGED <<embDemo, llmDemo, rpc, query, results, sources, events, frames,
                   httpError, llmCalls>>
    /\ UNCHANGED ServiceVarsKept

\* An except clause that re-raises in either mode.
remote_failure_always_raises(useDemo) == "raise"

\* The except clause of generate_stream, on an instance whose use_demo is
\* useDemo when the exception arrives.
remote_failure(useDemo) == IF ~useDemo THEN "fallback" ELSE "raise"

\* The remote call fails, when opening the stream or between two tokens: the
\* handler of generate_stream.  With use_demo still False it switches the
\* shared instance to the demo service and goes on with the demo response;
\* with use_demo already True it raises LLMError, which the handler of
\* query_stream turns into an error event.
GenRemoteFail(r) ==
    /\ ~hung
    /\ rpc[r] \in Generating /\ gen[r].phase = "remote"
    /\ IF remote_failure(llmDemo) = "fallback"
       THEN /\ llmDemo' = TRUE
            /\ gen' = [gen EXCEPT ![r].phase = "demo", ![r].failed = TRUE]
            /\ UNCHANGED <<rpc, events, frames>>
       ELSE /\ gen' = [gen EXCEPT ![r].phase = "raised", ![r].failed = TRUE]
            /\ Yield(r, ErrorException)
            /\ rpc' = [rpc EXCEPT ![r] = "closing"]
            /\ UNCHANGED llmDemo
    /\ UNCHANGED <<embDemo, query, results, sources, httpError, llmCalls>>
    /\ UNCHANGED ServiceVarsKept

\* DemoLLMService.generate_stream delivers the next token of its canned
\* response (DemoLen tokens); it never fails.
GenDemoToken(r) ==
    /\ ~hung
    /\ rpc[r] \in Generating /\ gen[r].phase = "demo"
    /\ gen' = [gen EXCEPT ![r].demo = @ + 1,
                          ![r].phase = IF gen[r].demo + 1 = DemoLen THEN "done" ELSE "demo"]
    /\ Yield(r, TokenEvent("demo", gen[r].demo + 1))
    /\ UNCHANGED <<embDemo, llmDemo, rpc, query, results, sources, httpError, llmCalls>>
    /\ UNCHANGED ServiceVarsKept

\* getattr(llm_service, 'use_demo', False) and "demo-llm" or settings.openai_model
model_used(useDemo) == IF useDemo THEN "demo-llm" ELSE openai_model

\* The sources event of query_stream.  The branch without chunks sends the
\* demo citations and the fixed label; the branch with chunks sends the
\* prepared citations (replaced by the demo citations if there are none and
\* the instance is in demo mode) and the label of the instance's mode at that
\* moment.
sources_event(pc, srcs, useDemo) ==
    IF pc = "generating_bare" THEN SourcesEvent(create_demo_sources, "demo-llm")
    ELSE SourcesEvent(IF srcs = <<>> /\ useDemo THEN create_demo_sources ELSE srcs,
                      model_used(useDemo))

\* query_stream after the last token.
EmitSources(r) ==
    /\ ~hung
    /\ rpc[r] \in Generating /\ gen[r].phase = "done"
    /\ Yield(r, sources_event(rpc[r], sources[r], llmDemo))
    /\ rpc' = [rpc EXCEPT ![r] = "closing"]
    /\ UNCHANGED <<embDemo, llmDemo, query, results, sources, httpError, gen, llmCalls>>
    /\ UNCHANGED ServiceVarsKept

\* generate_stream of the entrypoint: query_stream is exhausted, the end frame
\* is written.
EmitEnd(r) ==
    /\ ~hung
    /\ rpc[r] = "closing"
    /\ frames' = [frames EXCEPT ![r] = Append(@, EndFrame)]
    /\ rpc' = [rpc EXCEPT ![r] = "finished"]
    /\ UNCHANGED <<embDemo, llmDemo, query, results, sources, events, httpError, gen,
                   llmCalls>>
    /\ UNCHANGED ServiceVarsKept

\* The response is complete; the client may send its next request.
NextRequest(r) ==
    /\ rpc[r] \in {"finished", "rejected", "cancelled"}
    /\ rpc' = [rpc EXCEPT ![r] = "idle"]
    /\ query' = [query EXCEPT ![r] = NoQuery]
    /\ results' = [results EXCEPT ![r] = NoResults]
    /\ sources' = [sources EXCEPT ![r] = <<>>]
    /\ events' = [events EXCEPT ![r] = <<>>]
    /\ frames' = [frames EXCEPT ![r] = <<>>]
    /\ httpError' = [httpError EXCEPT ![r] = 0]
    /\ gen' = [gen EXCEPT ![r] = NoGen]
    /\ llmCalls' = [llmCalls EXCEPT ![r] = 0]
    /\ UNCHANGED <<embDemo, llmDemo>>
    /\ UNCHANGED ServiceVarsKept

RequestStep(r) ==
    \/ QueryEntry(r)
    \/ StreamStart(r)
    \/ Search(r)
    \/ GenStart(r)
    \/ GenRemoteToken(r)
    \/ GenRemoteEnd(r)
    \/ GenRemoteFail(r)
    \/ GenDemoToken(r)
    \/ EmitSources(r)
    \/ EmitEnd(r)
    \/ NextRequest(r)

---------------------------------------------------------------------------
(* Specifications *)

Next ==
    \/ Lifespan
    \/ Upload
    \/ Delete
    \/ RequestStep(1)

Spec == Init /\ [][Next]_vars

\* The process ends: what the services held in memory is gone (the registry,
\* the in-memory dicts, a blocked event loop); the ChromaDB collection and the
\* snapshot file stay.  The next start-up is Lifespan.
Shutdown ==
    /\ started
    /\ started' = FALSE
    /\ hung' = FALSE
    /\ documents' = {}
    /\ store' = [i \in Instances |-> <<>>]
    /\ lastIngest' = NoIngest
    /\ deleted' = {}
    /\ UNCHANGED <<collection, storageFile, useChroma, embDemo, llmDemo, nextDoc, embOp,
                   llmOp, lastDelete, mem, reqVars, chunkVars>>

RestartNext == Lifespan \/ Upload \/ Delete \/ Shutdown

RestartSpec == Init /\ [][RestartNext]_vars

\* A started service after one upload of a one-chunk document about topic
\* "a", with ChromaDB open in both instances; the embedding service of the
\* query side and the LLM service in either mode.
ConcInit ==
    /\ started = TRUE
    /\ useChroma = [i \in Instances |-> TRUE]
    /\ store = [i \in Instances |-> <<>>]
    /\ storageFile = <<>>
    /\ lastIngest = [files |-> <<"text">>, ids |-> <<1>>, processed |-> <<1>>,
                     raised |-> FALSE]
    /\ deleted = {}
    /\ embOp = NoEmbOp
    /\ llmOp = NoLlmOp
    /\ lastDelete = NoDelete
    /\ mem = NoMem
    /\ \E docDemo \in BOOLEAN, ragDemo \in BOOLEAN, lDemo \in BOOLEAN :
          LET S0 == [documents |-> {}, collection |-> <<>>, store |-> <<>>,
                     storageFile |-> <<>>, embDemo |-> docDemo, nextDoc |-> 0,
                     hung |-> FALSE]
              f == [kind |-> "text", ntok |-> chunk_size, topic |-> "a", remoteOk |-> TRUE,
                    addOk |-> TRUE]
              r == process_single_document(S0, f)
          IN /\ documents = r.S.documents
             /\ collection = r.S.collection
             /\ nextDoc = r.S.nextDoc
             /\ hung = r.S.hung
             /\ embDemo = [i \in Instances |-> IF i = "doc" THEN r.S.embDemo ELSE ragDemo]
             /\ llmDemo = lDemo
    /\ NoRequests
    /\ ChunkOff

ConcNext == \E r \in Requests : RequestStep(r)

ConcSpec == ConcInit /\ [][ConcNext]_vars

\* The stores a VectorService can hold: single-chunk documents in the order
\* of their ingest, each embedded by the variant that was active when it was
\* added (the persistent collection and the snapshot outlive the process, the
\* embedding mode does not, so every mix of variants occurs).
StoredChunks ==
    {StoredChunk([id |-> <<d, 0>>, doc |-> d, idx |-> 0, topic |-> t, blank |-> FALSE,
                  name |-> FileName, page |-> NoPage, chars |-> FileChars], v) :
        d \in 1..MaxDocs, t \in Topics, v \in {"remote", "demo"}}

Stores ==
    {st \in UNION {[1..n -> StoredChunks] : n \in 0..MaxDocs} :
        \A i \in 1..Len(st) : \A j \in 1..Len(st) : i < j => st[i].doc < st[j].doc}

\* similarity_search takes an optional metadata filter.
FilteredQueries == [topic : Topics, top_k : 1..MaxTopK, filter : {NoFilter} \cup (1..MaxDocs)]

\* A started service whose VectorService instances found st in the backend
\* they opened; the registry rebuilt from it by get_all_documents.
SearchInit ==
    /\ started = TRUE
    /\ hung = FALSE
    /\ llmDemo = FALSE
    /\ nextDoc = MaxDocs
    /\ lastIngest = NoIngest
    /\ deleted = {}
    /\ embOp = NoEmbOp
    /\ llmOp = NoLlmOp
    /\ lastDelete = NoDelete
    /\ mem = NoMem
    /\ \E st \in Stores, chroma \in BOOLEAN, demo \in BOOLEAN :
          /\ useChroma = [i \in Instances |-> chroma]
          /\ embDemo = [i \in Instances |-> demo]
          /\ collection = IF chroma THEN st ELSE <<>>
          /\ storageFile = IF chroma THEN <<>> ELSE st
          /\ store = [i \in Instances |-> IF chroma THEN <<>> ELSE st]
          /\ documents = get_all_documents(st)
    /\ NoRequests
    /\ ChunkOff

\* A call of similarity_search on the VectorService of the query side.
DirectSearch ==
    /\ rpc[1] \in {"idle", "searched", "service_searched"}
    /\ \E q \in FilteredQueries, remoteOk \in BOOLEAN, queryOk \in BOOLEAN :
          /\ embDemo["rag"] => remoteOk
          /\ ~useChroma["rag"] => queryOk
          /\ LET sr == similarity_search("rag", q, remoteOk, queryOk)
             IN /\ embDemo' = [embDemo EXCEPT !["rag"] = sr.demo]
                /\ results' = [results EXCEPT ![1] = [raised |-> sr.raised, chunks |-> sr.res]]
                /\ query' = [query EXCEPT ![1] = q]
                /\ rpc' = [rpc EXCEPT ![1] = "searched"]
    /\ UNCHANGED <<llmDemo, sources, events, frames, httpError, gen, llmCalls>>
    /\ UNCHANGED ServiceVarsKept

SearchSpec == SearchInit /\ [][DirectSearch]_vars

\* A call of similarity_search on a SimpleVectorService that holds the chunks
\* of the in-memory store and the embedding service of the query side.
ServiceSearch ==
    /\ rpc[1] \in {"idle", "searched", "service_searched"}
    /\ ~useChroma["rag"]
    /\ \E q \in FilteredQueries, remoteOk \in BOOLEAN :
          /\ embDemo["rag"] => remoteOk
          /\ LET sr == simple_service_search(store["rag"], embDemo["rag"], q, remoteOk)
             IN /\ embDemo' = [embDemo EXCEPT !["rag"] = sr.demo]
                /\ results' = [results EXCEPT ![1] = [raised |-> sr.raised, chunks |-> sr.res]]
                /\ query' = [query EXCEPT ![1] = q]
                /\ rpc' = [rpc EXCEPT ![1] = "service_searched"]
    /\ UNCHANGED <<llmDemo, sources, events, frames, httpError, gen, llmCalls>>
    /\ UNCHANGED ServiceVarsKept

\* Values of settings.similarity_threshold, between and beyond the scores.
Thresholds == {-50, demo_threshold, 40, similarity_threshold, 95}

\* The same query searched under two settings of the threshold, t1 <= t2, on
\* the store of the query side, the query embedded in the service's mode.
ThresholdSearch ==
    /\ rpc[1] = "idle"
    /\ \E q \in FilteredQueries, t1 \in Thresholds, t2 \in Thresholds :
          /\ t1 <= t2
          /\ LET v == IF embDemo["rag"] THEN "demo" ELSE "remote"
                 at(t) == IF useChroma["rag"] THEN chroma_results(collection, v, q, t)
                          ELSE simple_results(store["rag"], v, q, t)
             IN results' = [r \in Requests |->
                              [raised |-> FALSE,
                               chunks |-> at(IF r = 1 THEN t1 ELSE t2),
                               threshold |-> IF r = 1 THEN t1 ELSE t2]]
          /\ query' = [r \in Requests |-> q]
    /\ rpc' = [r \in Requests |-> "searched"]
    /\ UNCHANGED <<embDemo, llmDemo, sources, events, frames, httpError, gen, llmCalls>>
    /\ UNCHANGED ServiceVarsKept

ThresholdSpec == SearchInit /\ [][ThresholdSearch]_vars

\* One VectorService on the in-memory path (the DocumentService's instance),
\* driven directly: add_chunks, delete_document, a restart that reloads the
\* snapshot, similarity_search.  Document ids are handed out in increasing
\* order, so the id tells which chunk was added first.
TieInit ==
    /\ started = TRUE
    /\ hung = FALSE
    /\ llmDemo = FALSE
    /\ nextDoc = 0
    /\ lastIngest = NoIngest
    /\ deleted = {}
    /\ embOp = NoEmbOp
    /\ llmOp = NoLlmOp
    /\ lastDelete = NoDelete
    /\ mem = NoMem
    /\ useChroma = [i \in Instances |-> FALSE]
    /\ \E demo \in BOOLEAN : embDemo = [i \in Instances |-> demo]
    /\ collection = <<>>
    /\ storageFile = <<>>
    /\ store = [i \in Instances |-> <<>>]
    /\ documents = {}
    /\ NoRequests
    /\ ChunkOff

\* Documents added in one run of this service: enough for two chunks to tie
\* around one that was deleted.
TieDocs == MaxDocs + 1

TieKept == <<started, hung, documents, collection, useChroma, llmDemo, lastIngest, deleted,
             embOp, llmOp, lastDelete, mem, chunkVars>>

\* add_chunks with the one chunk of a new document; saveOk: _save_simple
\* manages to write the snapshot (a failure is logged and swallowed).
TieAdd ==
    /\ rpc[1] = "idle"
    /\ nextDoc < TieDocs
    /\ \E t \in Topics, remoteOk \in BOOLEAN, saveOk \in BOOLEAN :
          /\ embDemo["doc"] => remoteOk
          /\ LET d == nextDoc + 1
                 ch == [id |-> <<d, 0>>, doc |-> d, idx |-> 0, topic |-> t,
                        blank |-> FALSE, name |-> FileName, page |-> NoPage,
                        chars |-> FileChars]
                 ac == add_chunks(IngestState, <<ch>>, remoteOk, TRUE)
             IN /\ store' = [store EXCEPT !["doc"] = ac.S.store]
                /\ storageFile' = IF saveOk THEN ac.S.storageFile ELSE storageFile
                /\ embDemo' = [embDemo EXCEPT !["doc"] = ac.S.embDemo]
                /\ nextDoc' = d
    /\ UNCHANGED <<TieKept, reqVars>>

\* VectorService.delete_document on the in-memory path.
TieDelete ==
    /\ rpc[1] = "idle"
    /\ \E d \in 1..TieDocs, saveOk \in BOOLEAN :
          /\ d <= nextDoc
          /\ store' = [store EXCEPT !["doc"] = delete_simple(@, d)]
          /\ storageFile' = IF saveOk THEN delete_simple(store["doc"], d) ELSE storageFile
    /\ UNCHANGED <<TieKept, embDemo, nextDoc, reqVars>>

\* A restart: _init_simple loads the snapshot (loadOk; a failure is logged and
\* the dicts stay empty), the embedding service probes its provider anew.
TieReload ==
    /\ rpc[1] = "idle"
    /\ \E loadOk \in BOOLEAN, probeOk \in BOOLEAN :
          /\ store' = [store EXCEPT !["doc"] = IF loadOk THEN storageFile ELSE <<>>]
          /\ embDemo' = [embDemo EXCEPT !["doc"] = ~probeOk]
    /\ UNCHANGED <<TieKept, storageFile, nextDoc, reqVars>>

\* similarity_search on that instance, after the operations above.
TieSearch ==
    /\ rpc[1] = "idle"
    /\ \E q \in FilteredQueries, remoteOk \in BOOLEAN :
          /\ embDemo["doc"] => remoteOk
          /\ LET sr == similarity_search("doc", q, remoteOk, TRUE)
             IN /\ embDemo' = [embDemo EXCEPT !["doc"] = sr.demo]
                /\ results' = [results EXCEPT ![1] = [raised |-> sr.raised, chunks |-> sr.res]]
                /\ query' = [query EXCEPT ![1] = q]
                /\ rpc' = [rpc EXCEPT ![1] = "searched"]
    /\ UNCHANGED <<TieKept, store, storageFile, nextDoc>>
    /\ UNCHANGED <<sources, events, frames, httpError, gen, llmCalls>>

TieNext == TieAdd \/ TieDelete \/ TieReload \/ TieSearch

TieSpec == TieInit /\ [][TieNext]_vars

\* A started DocumentService with nothing stored, in either backend and
\* either embedding mode.
IngestInit ==
    /\ started = TRUE
    /\ hung = FALSE
    /\ llmDemo = FALSE
    /\ nextDoc = 0
    /\ lastIngest = NoIngest
    /\ deleted = {}
    /\ embOp = NoEmbOp
    /\ llmOp = NoLlmOp
    /\ lastDelete = NoDelete
    /\ mem = NoMem
    /\ \E chroma \in BOOLEAN, demo \in BOOLEAN :
          /\ useChroma = [i \in Instances |-> chroma]
          /\ embDemo = [i \in Instances |-> demo]
    /\ collection = <<>>
    /\ storageFile = <<>>
    /\ store = [i \in Instances |-> <<>>]
    /\ documents = {}
    /\ NoRequests
    /\ ChunkOff

\* Files in one call of process_documents made directly on the service.
IngestFiles == MaxFiles + 2

\* One call of DocumentService.process_documents with up to IngestFiles files;
\* the files handed in are kept with the outcome.
ProcessDocuments ==
    /\ lastIngest = NoIngest
    /\ \E n \in 1..IngestFiles : \E files \in [1..n -> Files] :
          /\ \A i \in 1..n : RelevantOutcomes(files[i])
          /\ LET r == process_documents(IngestState, files, <<>>, <<>>)
             IN /\ documents' = r.S.documents
                /\ collection' = r.S.collection
                /\ store' = [store EXCEPT !["doc"] = r.S.store]
                /\ storageFile' = r.S.storageFile
                /\ embDemo' = [embDemo EXCEPT !["doc"] = r.S.embDemo]
                /\ nextDoc' = r.S.nextDoc
                /\ hung' = r.S.hung
                /\ lastIngest' = [files |-> [i \in 1..n |-> files[i].kind], ids |-> r.ids,
                                  processed |-> r.processed,
                                  raised |-> (~r.S.hung /\ r.processed = <<>>),
                                  inputs |-> files]
    /\ UNCHANGED <<started, useChroma, llmDemo, deleted, embOp, llmOp, lastDelete, mem, reqVars,
                   chunkVars>>

IngestSpec == IngestInit /\ [][ProcessDocuments]_vars

\* _save_simple: one json.dump of both dicts; a failure is logged and
\* swallowed.  save is what happens to the file: "written", "kept" (it could
\* not be opened) or "broken" (the write stopped part-way).
SaveOutcomes == {"written", "kept", "broken"}

save_simple(M, save) ==
    [M EXCEPT !.file =
        IF save = "written"
        THEN [valid |-> TRUE, chunks |-> M.chunks, embeddings |-> M.embeddings]
        ELSE IF save = "kept" THEN M.file
        ELSE [valid |-> FALSE, chunks |-> <<>>, embeddings |-> <<>>]]

\* self.chunks[chunk_id] = ...; self.embeddings[chunk_id] = embedding
store_chunk(M, ch, variant) ==
    [M EXCEPT !.chunks = Append(@, [id |-> ch.id, doc |-> ch.doc]),
              !.embeddings = Append(@, [id |-> ch.id, variant |-> variant])]

\* The loop of _add_chunks_simple from chunk i of the batch, up to the point
\* where it waits for the provider (a non-blank chunk in remote mode), raises
\* (a blank chunk in demo mode) or ends with _save_simple.  Nothing else runs
\* in between: the demo embedding and the dict assignments do not suspend.
RECURSIVE add_chunks_simple(_, _, _, _, _)
add_chunks_simple(M, useDemo, batch, i, save) ==
    IF i > Len(batch)
    THEN [M |-> save_simple(M, save), demo |-> useDemo, at |-> i, op |-> "added"]
    ELSE IF ~useDemo /\ ~batch[i].blank
    THEN [M |-> M, demo |-> useDemo, at |-> i, op |-> "add"]
    ELSE LET e == create_embedding(useDemo, batch[i].blank, TRUE)
         IN IF e.raised THEN [M |-> M, demo |-> e.demo, at |-> i, op |-> "raised"]
            ELSE add_chunks_simple(store_chunk(M, batch[i], e.variant), e.demo, batch,
                                   i + 1, save)

\* How a request to the provider that is under way ends, use_demo being
\* useDemo when it ends: the remote vector; after a failure the handler of
\* create_embedding falls back if use_demo is still False and raises if
\* another call has set it meanwhile.
remote_embedding_returns(useDemo, remoteOk) ==
    IF remoteOk THEN [raised |-> FALSE, variant |-> "remote", demo |-> useDemo]
    ELSE IF ~useDemo THEN [raised |-> FALSE, variant |-> "demo", demo |-> TRUE]
    ELSE [raised |-> TRUE, variant |-> "none", demo |-> TRUE]

\* A delete that removes the chunks and leaves their embeddings.
delete_simple_chunks_only(M, d) ==
    [M EXCEPT !.chunks = SelectSeq(@, LAMBDA c : c.doc # d)]

\* The two del statements of _delete_simple for every chunk of document d.
delete_simple_both(M, d) ==
    LET gone == {M.chunks[i].id : i \in {j \in 1..Len(M.chunks) : M.chunks[j].doc = d}}
    IN [M EXCEPT !.chunks = SelectSeq(@, LAMBDA c : c.id \notin gone),
                 !.embeddings = SelectSeq(@, LAMBDA e : e.id \notin gone)]

\* _init_simple: both dicts from the snapshot if it parses, else left empty.
init_simple(M) ==
    [M EXCEPT !.chunks = IF M.file.valid THEN M.file.chunks ELSE <<>>,
              !.embeddings = IF M.file.valid THEN M.file.embeddings ELSE <<>>]

MemKeys(seq) == {seq[i].id : i \in 1..Len(seq)}

\* The batches handed to add_chunks: the chunks of one new document, each
\* with content that is blank or not.
MemBatches(d) ==
    UNION {{[i \in 1..n |-> [id |-> <<d, i - 1>>, doc |-> d, blank |-> b[i]]] :
              b \in [1..n -> BOOLEAN]} : n \in 1..MaxBatch}

MemKept ==
    <<started, hung, documents, collection, store, storageFile, useChroma, llmDemo,
      lastIngest, deleted, embOp, llmOp, lastDelete, reqVars, chunkVars>>

\* An in-memory VectorService with nothing stored, in either embedding mode.
MemInit == TieInit

\* Call c of add_chunks starts and runs to its first wait, or to its end.
MemAdd(c) ==
    /\ mem.calls[c].op = "none"
    /\ nextDoc < MaxDocs
    /\ \E batch \in MemBatches(nextDoc + 1), save \in SaveOutcomes :
          LET r == add_chunks_simple(mem, embDemo["doc"], batch, 1, save)
          IN /\ (r.op # "added") => save = "written"
             /\ mem' = [r.M EXCEPT !.calls[c] = [op |-> r.op, batch |-> batch, at |-> r.at],
                                   !.last = IF r.op = "add" THEN @
                                            ELSE [NoLast EXCEPT !.op = "add",
                                                                !.raised = r.op = "raised"]]
             /\ embDemo' = [embDemo EXCEPT !["doc"] = r.demo]
    /\ nextDoc' = nextDoc + 1
    /\ UNCHANGED MemKept

\* The provider's answer to call c arrives: the chunk is stored and the loop
\* goes on to the next wait or to the end.
MemAddResume(c) ==
    /\ mem.calls[c].op = "add"
    /\ \E remoteOk \in BOOLEAN, save \in SaveOutcomes :
          LET k == mem.calls[c]
              e == remote_embedding_returns(embDemo["doc"], remoteOk)
              r == IF e.raised THEN [M |-> mem, demo |-> e.demo, at |-> k.at, op |-> "raised"]
                   ELSE add_chunks_simple(store_chunk(mem, k.batch[k.at], e.variant),
                                          e.demo, k.batch, k.at + 1, save)
          IN /\ (r.op # "added") => save = "written"
             /\ mem' = [r.M EXCEPT !.calls[c] = [k EXCEPT !.op = r.op, !.at = r.at],
                                   !.last = IF r.op = "add" THEN @
                                            ELSE [NoLast EXCEPT !.op = "add",
                                                                !.raised = r.op = "raised"]]
             /\ embDemo' = [embDemo EXCEPT !["doc"] = r.demo]
    /\ UNCHANGED <<MemKept, nextDoc>>

\* delete_document(d) on the in-memory path: it never waits.
MemDelete ==
    /\ \E d \in 1..MaxDocs, save \in SaveOutcomes :
          /\ d <= nextDoc
          /\ mem' = [save_simple(delete_simple_both(mem, d), save)
                       EXCEPT !.last = [NoLast EXCEPT !.op = "delete"]]
    /\ UNCHANGED <<MemKept, embDemo, nextDoc>>

\* similarity_search without filter: the loop of _search_simple looks up the
\* embedding of every chunk (missing: a chunk has none, KeyError); result is
\* the ids it scored.
MemSearch ==
    /\ mem.chunks # <<>>
    /\ \E remoteOk \in BOOLEAN :
          LET e == create_embedding(embDemo["doc"], FALSE, remoteOk)
              missing == \E i \in 1..Len(mem.chunks) :
                            mem.chunks[i].id \notin MemKeys(mem.embeddings)
          IN /\ embDemo["doc"] => remoteOk
             /\ embDemo' = [embDemo EXCEPT !["doc"] = e.demo]
             /\ mem' = [mem EXCEPT !.last =
                           [op |-> "search", raised |-> missing, missing |-> missing,
                            result |-> IF missing THEN <<>>
                                       ELSE [i \in 1..Len(mem.chunks) |-> mem.chunks[i].id]]]
    /\ UNCHANGED <<MemKept, nextDoc>>

\* A restart: the calls in flight are gone with the process, the dicts are
\* loaded from the snapshot, the provider is probed anew.
MemLoad ==
    /\ \E probeOk \in BOOLEAN :
          embDemo' = [embDemo EXCEPT !["doc"] = ~probeOk]
    /\ mem' = [init_simple(mem)
                 EXCEPT !.calls = [c \in Calls |->
                                     IF mem.calls[c].op = "add"
                                     THEN [mem.calls[c] EXCEPT !.op = "killed"]
                                     ELSE mem.calls[c]],
                        !.last = [NoLast EXCEPT !.op = "load"]]
    /\ UNCHANGED <<MemKept, nextDoc>>

MemNext ==
    \/ \E c \in Calls : MemAdd(c) \/ MemAddResume(c)
    \/ MemDelete
    \/ MemSearch
    \/ MemLoad

MemSpec == MemInit /\ [][MemNext]_vars

\* The same query on the same contents through both paths of VectorService:
\* request 1 on the persistent index, request 2 on the in-memory dicts, the
\* query embedded in the service's mode and filtered with its threshold.
BackendSearch ==
    /\ rpc[1] = "idle"
    /\ \E q \in FilteredQueries :
          /\ LET v == IF embDemo["rag"] THEN "demo" ELSE "remote"
                 t == Threshold(embDemo["rag"])
                 st == IF useChroma["rag"] THEN collection ELSE store["rag"]
             IN results' = [r \in Requests |->
                              [raised |-> FALSE,
                               chunks |-> IF r = 1 THEN chroma_results(st, v, q, t)
                                          ELSE simple_results(st, v, q, t),
                               backend |-> IF r = 1 THEN "chromadb" ELSE "simple"]]
          /\ query' = [r \in Requests |-> q]
    /\ rpc' = [r \in Requests |-> "searched"]
    /\ UNCHANGED <<embDemo, llmDemo, sources, events, frames, httpError, gen, llmCalls>>
    /\ UNCHANGED ServiceVarsKept

BackendSpec == SearchInit /\ [][BackendSearch]_vars

StoresNext == DirectSearch \/ ServiceSearch

StoresSpec == SearchInit /\ [][StoresNext]_vars

\* LLMService.generate_response: the prompt goes to the provider whatever
\* use_demo says; a failure raises LLMError and leaves use_demo as it was.
generate_response(useDemo, blank, remoteOk) ==
    IF blank
    THEN [raised |-> TRUE, remote |-> FALSE, demo |-> useDemo]
    ELSE [raised |-> ~remoteOk, remote |-> TRUE, demo |-> useDemo]

\* A generate_response call on the LLMService that the query streams use.
GenerateResponse ==
    /\ \E blank \in BOOLEAN, remoteOk \in BOOLEAN :
          LET out == generate_response(llmDemo, blank, remoteOk)
          IN /\ llmOp' = [op |-> "generate_response", blank |-> blank, before |-> llmDemo,
                          remote |-> out.remote, raised |-> out.raised]
             /\ llmDemo' = out.demo
    /\ UNCHANGED <<started, hung, documents, collection, store, storageFile, useChroma,
                   embDemo, nextDoc, lastIngest, deleted, embOp, lastDelete, mem, rpc, query,
                   results,
                   sources, events, frames, httpError, gen, llmCalls, chunkVars>>

\* A delete_document that lets the vector store look for an id it does not
\* know, and reports what the store call did.
delete_document_without_registry_test(docs, d, deleteOk) ==
    IF useChroma["doc"] /\ ~deleteOk THEN "raise" ELSE "deleted"

\* DocumentService.delete_document(d): "not_found" (returns False) for an id
\* the registry does not hold, before anything is touched; otherwise the
\* store is asked to delete (deleteOk: the ChromaDB calls succeed) and the
\* call returns True ("deleted") or passes the store's error on ("raise").
delete_document(docs, d, deleteOk) ==
    IF d \notin docs THEN "not_found"
    ELSE IF useChroma["doc"] /\ ~deleteOk THEN "raise"
    ELSE "deleted"

\* A started service that found store st in its backend, with any part of
\* the documents of st in the registry.
DeleteInit ==
    /\ started = TRUE
    /\ hung = FALSE
    /\ llmDemo = FALSE
    /\ nextDoc = MaxDocs
    /\ lastIngest = NoIngest
    /\ deleted = {}
    /\ embOp = NoEmbOp
    /\ llmOp = NoLlmOp
    /\ lastDelete = NoDelete
    /\ mem = NoMem
    /\ embDemo = [i \in Instances |-> FALSE]
    /\ \E st \in Stores, chroma \in BOOLEAN :
          /\ useChroma = [i \in Instances |-> chroma]
          /\ collection = (IF chroma THEN st ELSE <<>>)
          /\ storageFile = (IF chroma THEN <<>> ELSE st)
          /\ store = [i \in Instances |-> IF chroma THEN <<>> ELSE st]
          /\ documents \in SUBSET {st[j].doc : j \in 1..Len(st)}
    /\ NoRequests
    /\ ChunkOff

\* A call of DocumentService.delete_document with any id.
DeleteCall ==
    /\ \E d \in 1..MaxDocs, deleteOk \in BOOLEAN :
          LET out == delete_document(documents, d, deleteOk)
          IN /\ lastDelete' = [id |-> d, found |-> out = "deleted", raised |-> out = "raise"]
             /\ IF out = "deleted"
                THEN /\ documents' = documents \ {d}
                     /\ deleted' = deleted \cup {d}
                     /\ IF useChroma["doc"]
                        THEN /\ collection' = delete_chromadb(collection, d)
                             /\ UNCHANGED <<store, storageFile>>
                        ELSE /\ store' = [store EXCEPT !["doc"] = delete_simple(@, d)]
                             /\ storageFile' = delete_simple(store["doc"], d)
                             /\ UNCHANGED collection
                ELSE UNCHANGED <<documents, deleted, collection, store, storageFile>>
    /\ UNCHANGED <<started, hung, useChroma, embDemo, llmDemo, nextDoc, lastIngest, embOp,
                   llmOp, mem, reqVars, chunkVars>>

DeleteSpec == DeleteInit /\ [][DeleteCall]_vars

\* Retrieval results as similarity_search returns them: chunks of distinct
\* documents with their stored metadata, content lengths around the excerpt
\* limit, in non-increasing order of score.
RetrievedChunks ==
    {[id |-> <<d, 0>>, doc |-> d, idx |-> 0, topic |-> "a", score |-> sc,
      name |-> n, page |-> stored_page(pg), chars |-> ch] :
        d \in 1..MaxDocs, sc \in {similarity_threshold, 90},
        n \in {FileName, "paper.pdf"}, pg \in {NoPage, 3},
        ch \in {MaxExcerpt - 1, MaxExcerpt, MaxExcerpt + 1}}

RankedResults ==
    {res \in UNION {[1..n -> RetrievedChunks] : n \in 0..MaxTopK} :
        \A i \in 1..Len(res) : \A j \in 1..Len(res) :
           i < j => (res[i].doc # res[j].doc /\ res[i].score >= res[j].score)}

\* Step 2 of query_stream on a list of retrieved chunks: the citations are
\* prepared from it.
PrepareCitations ==
    /\ rpc[1] = "idle"
    /\ \E res \in RankedResults :
          /\ results' = [results EXCEPT ![1] = [raised |-> FALSE, chunks |-> res]]
          /\ sources' = [sources EXCEPT ![1] = prepare_sources(res)]
    /\ rpc' = [rpc EXCEPT ![1] = "cited"]
    /\ UNCHANGED <<embDemo, llmDemo, query, events, frames, httpError, gen, llmCalls>>
    /\ UNCHANGED ServiceVarsKept

\* A started service in remote mode, no request made yet.
CiteInit ==
    /\ started = TRUE
    /\ hung = FALSE
    /\ documents = {}
    /\ collection = <<>>
    /\ storageFile = <<>>
    /\ store = [i \in Instances |-> <<>>]
    /\ useChroma = [i \in Instances |-> TRUE]
    /\ embDemo = [i \in Instances |-> FALSE]
    /\ llmDemo = FALSE
    /\ nextDoc = 0
    /\ lastIngest = NoIngest
    /\ deleted = {}
    /\ embOp = NoEmbOp
    /\ llmOp = NoLlmOp
    /\ lastDelete = NoDelete
    /\ mem = NoMem
    /\ NoRequests
    /\ ChunkOff

CiteSpec == CiteInit /\ [][PrepareCitations]_vars

\* What reaches the generators when the consumer of the stream goes away: the
\* task that iterates them is cancelled at an await (CancelledError), or the
\* outer generator is closed at its yield (GeneratorExit).
CancelSignals == {"CancelledError", "GeneratorExit"}

\* A bare except clause, which catches the two signals as well.
except_catches_everything(sig) == TRUE

\* "except Exception": both signals derive from BaseException only.
except_exception_catches(sig) == sig \notin {"CancelledError", "GeneratorExit"}

\* What the handlers of generate_stream, query_stream and generate_response
\* make of signal sig raised in a stream whose generation is in phase `phase`.
cancel_outcome(sig, phase, useDemo) ==
    IF ~except_exception_catches(sig) THEN "closed"
    ELSE IF phase = "remote" THEN remote_failure(useDemo)
    ELSE "raise"

\* The consumer of the stream of request r cancels.
Cancel(r) ==
    /\ ~hung
    /\ rpc[r] \in {"stream", "searching", "closing"} \cup Generating
    /\ ~gen[r].cancelled
    /\ \E sig \in CancelSignals :
          LET out == cancel_outcome(sig, gen[r].phase, llmDemo)
          IN IF out = "closed"
             THEN /\ gen' = [gen EXCEPT ![r].cancelled = TRUE, ![r].phase = "closed"]
                  /\ rpc' = [rpc EXCEPT ![r] = "cancelled"]
                  /\ UNCHANGED <<llmDemo, events, frames>>
             ELSE IF out = "fallback"
             THEN /\ gen' = [gen EXCEPT ![r].cancelled = TRUE, ![r].phase = "demo",
                                        ![r].failed = TRUE]
                  /\ llmDemo' = TRUE
                  /\ UNCHANGED <<rpc, events, frames>>
             ELSE /\ gen' = [gen EXCEPT ![r].cancelled = TRUE, ![r].phase = "raised"]
                  /\ Yield(r, ErrorException)
                  /\ rpc' = [rpc EXCEPT ![r] = "closing"]
                  /\ UNCHANGED llmDemo
    /\ UNCHANGED <<embDemo, query, results, sources, httpError, llmCalls>>
    /\ UNCHANGED ServiceVarsKept

CancelNext == \E r \in Requests : RequestStep(r) \/ Cancel(r)

CancelSpec == ConcInit /\ [][CancelNext]_vars

LlmNext == ConcNext \/ GenerateResponse

LlmSpec == ConcInit /\ [][LlmNext]_vars

\* The EmbeddingService of each side after start-up, in either mode, and the
\* four operations of the class called on it directly.
EmbInit ==
    /\ started = TRUE
    /\ hung = FALSE
    /\ documents = {}
    /\ collection = <<>>
    /\ storageFile = <<>>
    /\ store = [i \in Instances |-> <<>>]
    /\ useChroma = [i \in Instances |-> TRUE]
    /\ embDemo \in [Instances -> BOOLEAN]
    /\ llmDemo = FALSE
    /\ nextDoc = 0
    /\ lastIngest = NoIngest
    /\ deleted = {}
    /\ embOp = NoEmbOp
    /\ llmOp = NoLlmOp
    /\ lastDelete = NoDelete
    /\ mem = NoMem
    /\ NoRequests
    /\ ChunkOff

BlankFlags == UNION {[1..n -> BOOLEAN] : n \in 0..MaxBatch}

EmbKept ==
    <<started, hung, documents, collection, store, storageFile, useChroma, llmDemo,
      nextDoc, lastIngest, deleted, llmOp, lastDelete, mem, reqVars, chunkVars>>

\* The record of a call: what it was given, the mode it found, what it did.
EmbCalled(i, op, blanks, out) ==
    [inst |-> i, op |-> op, blanks |-> blanks, before |-> embDemo[i],
     remote |-> out.remote, raised |-> out.raised, variants |-> out.variants]

EmbInitialize(i) ==
    \E probeOk \in BOOLEAN :
       LET out == embedding_initialize(embDemo[i], probeOk)
       IN /\ embOp' = EmbCalled(i, "initialize", <<>>, out)
          /\ embDemo' = [embDemo EXCEPT ![i] = out.demo]
          /\ UNCHANGED EmbKept

EmbCreate(i) ==
    \E blank \in BOOLEAN, remoteOk \in BOOLEAN :
       LET e == create_embedding(embDemo[i], blank, remoteOk)
           out == [raised |-> e.raised,
                   variants |-> IF e.raised THEN <<>> ELSE <<e.variant>>,
                   remote |-> ~embDemo[i] /\ ~blank]
       IN /\ embOp' = EmbCalled(i, "create_embedding", <<blank>>, out)
          /\ embDemo' = [embDemo EXCEPT ![i] = e.demo]
          /\ UNCHANGED EmbKept

EmbBatch(i) ==
    \E blanks \in BlankFlags, batchOk \in BOOLEAN, oks \in [1..MaxBatch -> BOOLEAN] :
       LET out == create_embeddings_batch(embDemo[i], blanks, batchOk, oks)
       IN /\ embOp' = EmbCalled(i, "create_embeddings_batch", blanks, out)
          /\ embDemo' = [embDemo EXCEPT ![i] = out.demo]
          /\ UNCHANGED EmbKept

EmbHealth(i) ==
    \E remoteOk \in BOOLEAN :
       LET out == embedding_health_check(embDemo[i], remoteOk)
       IN /\ embOp' = EmbCalled(i, "health_check", <<FALSE>>, out)
          /\ embDemo' = [embDemo EXCEPT ![i] = out.demo]
          /\ UNCHANGED EmbKept

EmbNext ==
    \E i \in Instances :
       EmbInitialize(i) \/ EmbCreate(i) \/ EmbBatch(i) \/ EmbHealth(i)

EmbSpec == EmbInit /\ [][EmbNext]_vars

ChunkInit ==
    /\ SysInit
    /\ cpc = "start"
    /\ cin \in ChunkInputs
    /\ start_idx = 0
    /\ end_idx = 0
    /\ chunks = <<>>
    /\ iters = 0

ChunkSpec == ChunkInit /\ [][ChunkNext]_vars

\* The loop is ordinary sequential code: it keeps running.
ChunkFairSpec == ChunkSpec /\ WF_vars(ChunkNext)

---------------------------------------------------------------------------
(* Properties of the query stream *)

Last(s) == s[Len(s)]

OfType(ev, type) == SelectSeq(ev, LAMBDA e : e.type = type)

Terminated(r) == rpc[r] \in {"closing", "finished"}

\* The events of a stream that has passed the generating status: the two
\* status events, then token events only.
StatusThenTokens(ev) ==
    /\ Len(ev) >= 2
    /\ ev[1] = StatusSearching
    /\ ev[2] = StatusGenerating
    /\ \A i \in 3..Len(ev) : ev[i].type = "token"

\* One citation per retrieved chunk, in the order of the chunks.
CitesEach(srcs, res) ==
    /\ Len(srcs) = Len(res)
    /\ \A i \in 1..Len(res) :
          /\ srcs[i].document_id = res[i].doc
          /\ srcs[i].chunk_index = res[i].idx
          /\ srcs[i].relevance_score = res[i].score

\* Once query_stream has returned, request r yields nothing more and makes no
\* further call of the generation provider.
NothingAfterReturn(r) ==
    (Terminated(r) /\ rpc'[r] # "idle") =>
        /\ events'[r] = events[r]
        /\ llmCalls'[r] = llmCalls[r]
        /\ rpc'[r] \in {"closing", "finished"}

\* C1: when the search returns at least one chunk and generation completes
\* without raising, the events are: status searching, status generating, the
\* token events, one sources event and nothing after it; no token comes
\* before the generating status, and the sources event carries one citation
\* per retrieved chunk.
C1_EventOrder ==
    \A r \in Requests :
       /\ (results[r].chunks # <<>> /\ rpc[r] = "generating") =>
             StatusThenTokens(events[r])
       /\ (results[r].chunks # <<>> /\ Terminated(r) /\ gen[r].phase = "done") =>
             /\ Len(events[r]) >= 3
             /\ StatusThenTokens(SubSeq(events[r], 1, Len(events[r]) - 1))
             /\ Last(events[r]).type = "sources"
             /\ CitesEach(Last(events[r]).sources, results[r].chunks)

C1_Witness ==
    /\ rpc[1] = "finished"
    /\ Len(results[1].chunks) = 2
    /\ gen[1].phase = "done"
    /\ Len(OfType(events[1], "token")) >= 1
    /\ Last(events[1]).type = "sources"

RemoteTokensKept(r) ==
    LET toks == OfType(events[r], "token")
    IN /\ Len(toks) = gen[r].produced + gen[r].demo
       /\ \A i \in 1..gen[r].produced : toks[i] = TokenEvent("remote", i)
       /\ \A i \in 1..gen[r].demo : toks[gen[r].produced + i] = TokenEvent("demo", i)

C3_NoResultsRemote ==
    [][\A r \in Requests :
         /\ (/\ rpc[r] = "searching" /\ rpc'[r] # "searching"
             /\ ~results'[r].raised /\ results'[r].chunks = <<>>
             /\ ~llmDemo) =>
                /\ events'[r] = <<StatusSearching, ErrorNoInfo>>
                /\ rpc'[r] = "closing"
                /\ llmCalls'[r] = 0
                /\ gen'[r] = NoGen
         /\ NothingAfterReturn(r)]_vars

C3_Witness ==
    /\ rpc[1] = "finished"
    /\ ~llmDemo
    /\ ~results[1].raised /\ results[1].chunks = <<>>
    /\ events[1] = <<StatusSearching, ErrorNoInfo>>
    /\ llmCalls[1] = 0

DemoTokens(n) == [i \in 1..n |-> TokenEvent("demo", i)]

\* No uploaded document has the id of a demo citation.
DemoCitationsFixed ==
    /\ create_demo_sources # <<>>
    /\ \A i \in 1..Len(create_demo_sources) :
          create_demo_sources[i].document_id \notin 0..(MaxDocs + 1)

\* C4: when the search returns no chunk and the LLMService is in
\* local-fallback mode, query_stream emits the generating status, generates
\* from the query alone, emits the tokens of the demo response, then one
\* sources event with the fixed non-empty demo citations and the label
\* "demo-llm", and ends without an error event.
C4_NoResultsDemo ==
    [][\A r \in Requests :
         /\ (/\ rpc[r] = "searching" /\ rpc'[r] # "searching"
             /\ ~results'[r].raised /\ results'[r].chunks = <<>>
             /\ llmDemo) =>
                /\ events'[r] = <<StatusSearching, StatusGenerating>>
                /\ rpc'[r] = "generating_bare"
         /\ rpc'[r] = "generating_bare" =>
                /\ events'[r] = <<StatusSearching, StatusGenerating>> \o DemoTokens(gen'[r].demo)
                /\ gen'[r].prompt \in {"none", "bare"}
                /\ gen'[r].phase \in {"none", "demo", "done"}
         /\ (rpc[r] = "generating_bare" /\ rpc'[r] # "generating_bare") =>
                /\ rpc'[r] = "closing"
                /\ gen[r].prompt = "bare"
                /\ gen[r].demo = DemoLen
                /\ events'[r] = Append(events[r], SourcesEvent(create_demo_sources, "demo-llm"))
                /\ DemoCitationsFixed
         /\ NothingAfterReturn(r)]_vars

C4_Witness ==
    /\ rpc[1] = "finished"
    /\ gen[1].prompt = "bare"
    /\ events[1] = <<StatusSearching, StatusGenerating>> \o DemoTokens(DemoLen)
                     \o <<SourcesEvent(create_demo_sources, "demo-llm")>>

\* The frames of Scenario B: status searching, then tokens (the generating
\* status among the events before them), then a sources frame with a
\* non-empty citation list, then end.
ScenarioBFrames(fr) ==
    /\ Len(fr) >= 4
    /\ fr[1] = StatusSearching
    /\ \A i \in 2..(Len(fr) - 2) : fr[i].type \in {"status", "token"}
    /\ \E i \in 2..(Len(fr) - 2) : fr[i].type = "token"
    /\ fr[Len(fr) - 1].type = "sources"
    /\ fr[Len(fr) - 1].sources = create_demo_sources
    /\ fr[Len(fr) - 1].sources # <<>>
    /\ Last(fr) = EndFrame

C6_SearchRaises ==
    \A r \in Requests :
       results[r].raised =>
           /\ Terminated(r)
           /\ events[r] = <<StatusSearching, ErrorException>>
           /\ llmCalls[r] = 0
           /\ gen[r] = NoGen

C6_Witness ==
    /\ rpc[1] = "finished"
    /\ results[1].raised
    /\ frames[1] = <<StatusSearching, ErrorException, EndFrame>>

---------------------------------------------------------------------------
(* Properties of the splitters and of create_chunks *)

SplitReturned == cpc = "done"

\* C7: the split loop terminates, for every text and every configuration with
\* chunk_size > 0 and chunk_overlap >= 0, in the token splitter and in the
\* character-based fallback splitter.
C7_SplitTerminates == <>SplitReturned

\* A run of the token splitter in the default case (0 < overlap < chunk_size,
\* more tokens than chunk_size) that has gone round the loop and is back at
\* the start_idx it had before.
C7_Witness ==
    /\ cpc = "loop"
    /\ cin.tok /\ 0 < cin.O /\ cin.O < cin.M /\ NumTokens > cin.M
    /\ end_idx = NumTokens
    /\ start_idx = NumTokens - cin.O
    /\ Len(chunks) >= 3

CeilDiv(a, b) == (a + b - 1) \div b

\* Tokens that chunk i and chunk i + 1 have in common.
Shared(i) ==
    Cardinality({k \in 0..NumTokens :
                   /\ chunks[i][1] <= k /\ k < chunks[i][2]
                   /\ chunks[i + 1][1] <= k /\ k < chunks[i + 1][2]})

\* C8: with 0 <= O < M the token splitter returns one chunk, the whole text,
\* when T <= M, and otherwise ceil((T - O) / (M - O)) chunks of which every
\* two consecutive ones share exactly O tokens.
C8_ChunkCount ==
    (SplitReturned /\ cin.tok /\ cin.O < cin.M) =>
        IF NumTokens <= cin.M
        THEN chunks = << <<0, NumTokens>> >>
        ELSE /\ Len(chunks) = CeilDiv(NumTokens - cin.O, cin.M - cin.O)
             /\ \A i \in 1..(Len(chunks) - 1) : Shared(i) = cin.O

\* The splitter has returned from the loop on a text longer than chunk_size.
C8_Witness ==
    /\ SplitReturned
    /\ cin.tok /\ cin.O < cin.M /\ NumTokens = 2 * cin.M - cin.O
    /\ Len(chunks) = 1

\* C9: with 0 <= O < M and a non-empty text, the chunks returned by the token
\* splitter cover every token 0..T-1, and the last chunk ends at token T.
C9_Coverage ==
    (SplitReturned /\ cin.tok /\ cin.O < cin.M /\ NumTokens > 0) =>
        /\ \A k \in 0..(NumTokens - 1) :
              \E i \in 1..Len(chunks) : chunks[i][1] <= k /\ k < chunks[i][2]
        /\ chunks # <<>>
        /\ chunks[Len(chunks)][2] = NumTokens

\* The splitter has returned chunks that end before the text does.
C9_Witness ==
    /\ SplitReturned
    /\ cin.tok /\ cin.O < cin.M /\ NumTokens > cin.M
    /\ chunks[Len(chunks)][2] < NumTokens

ChunksOf(st, d) == SelectSeq(st, LAMBDA c : c.doc = d)

\* C10: a document whose content is empty or whitespace only makes
\* create_chunks raise without building a chunk, and the upload leaves
\* nothing of that file in the vector store, in the snapshot or in the
\* document registry.
C10_BlankDocument ==
    /\ \A f \in Files : f.kind = "blank" =>
          \A d \in 1..MaxDocs :
             create_chunks(f, d).raised /\ create_chunks(f, d).chunks = <<>>
    /\ \A i \in 1..Len(lastIngest.ids) :
          lastIngest.files[i] = "blank" =>
             LET d == lastIngest.ids[i]
             IN /\ d \notin documents
                /\ d \notin Range(lastIngest.processed)
                /\ ChunksOf(collection, d) = <<>>
                /\ \A inst \in Instances : ChunksOf(store[inst], d) = <<>>
                /\ ChunksOf(storageFile, d) = <<>>

\* A blank file has been uploaded to a service whose embedding provider is in
\* remote mode, and got a document id.
C10_Witness ==
    /\ lastIngest.files = <<"blank">>
    /\ lastIngest.ids = <<nextDoc>>
    /\ lastIngest.raised
    /\ ~embDemo["doc"]

---------------------------------------------------------------------------
(* Properties of the vector store and of the provider switches *)

\* The store that the VectorService of the query side searches.
SearchedStore == IF useChroma["rag"] THEN collection ELSE store["rag"]

\* The score the active backend gives chunk c for the query of request r,
\* embedded in the mode the embedding service is in after the search.
BackendScore(r, c) ==
    LET cos == Cosine(query[r].topic, IF embDemo["rag"] THEN "demo" ELSE "remote", c)
    IN IF useChroma["rag"] THEN ChromaScore(cos) ELSE cos

ActiveThreshold == IF embDemo["rag"] THEN demo_threshold ELSE similarity_threshold

\* The positions of the stored chunks that pass the filter and the threshold.
Qualifying(r) ==
    {j \in 1..Len(SearchedStore) :
        /\ MatchesFilter(SearchedStore[j], query[r].filter)
        /\ BackendScore(r, SearchedStore[j]) >= ActiveThreshold}

C13_ReadAfterWrite ==
    [][\A r \in Requests :
         (rpc[r] = "searching" /\ rpc'[r] # "searching") =>
             \A d \in documents :
                \E j \in 1..Len(SearchedStore) : SearchedStore[j].doc = d]_vars

\* With the in-memory backend on both sides, a query about the topic of the
\* one registered document, embedded by the same variant as the document,
\* has ended with "no relevant information found".
C13_Witness ==
    /\ ~useChroma["doc"] /\ ~useChroma["rag"]
    /\ documents = {1}
    /\ Len(store["doc"]) = 1
    /\ store["doc"][1].topic = query[1].topic
    /\ store["doc"][1].variant = (IF embDemo["rag"] THEN "demo" ELSE "remote")
    /\ rpc[1] = "finished"
    /\ events[1] = <<StatusSearching, ErrorNoInfo>>

\* C14: an EmbeddingService that was using the local fallback variant before a
\* call (initialize, create_embedding, create_embeddings_batch, health_check)
\* is still using it after the call, and the call did not reach the remote
\* provider.
C14_EmbeddingOneWay ==
    (embOp.op # "none" /\ embOp.before) =>
        (embDemo[embOp.inst] /\ ~embOp.remote)

\* A batch of one non-blank text was embedded by a service in fallback mode,
\* and the provider answered it.
C14_Witness ==
    /\ embOp.op = "create_embeddings_batch"
    /\ embOp.before
    /\ embOp.blanks = <<FALSE>>
    /\ embOp.remote
    /\ embOp.variants = <<"remote">>

Variants(st) == {st[j].variant : j \in 1..Len(st)}

\* C15: the embeddings held in one vector store were all produced by the same
\* embedding variant, and the query vector of every similarity search that
\* returns was produced by the variant of the embeddings it is compared with.
C15_NoMixedSpaces ==
    /\ [](\A st \in {collection} \cup {store[i] : i \in Instances} : Cardinality(Variants(st)) <= 1)
    /\ [][\A r \in Requests :
            (rpc[r] = "searching" /\ rpc'[r] # "searching" /\ ~results'[r].raised) =>
                Variants(SearchedStore) \subseteq
                    {IF embDemo'["rag"] THEN "demo" ELSE "remote"}]_vars

\* Two uploads, the provider failing during the second: the persistent
\* index holds a remote embedding and a fallback embedding side by side.
C15_Witness ==
    /\ Len(collection) = 2
    /\ collection[1].variant = "remote"
    /\ collection[2].variant = "demo"
    /\ documents = {1, 2}

\* C16: once the LLMService uses the local fallback it never leaves it, a
\* generate_stream call that starts in fallback mode is served by the local
\* variant, and a generate_response call made in fallback mode does not reach
\* the remote provider.
C16_GenerationOneWay ==
    /\ [](llmOp.op = "generate_response" /\ llmOp.before => ~llmOp.remote)
    /\ [][(llmDemo => llmDemo') /\
          (\A r \in Requests :
              (llmDemo /\ gen[r].phase = "none" /\ gen'[r].phase # "none") =>
                  gen'[r].phase = "demo")]_vars

\* After a stream of request 1 failed and switched the service to the local
\* fallback, generate_response was called and the provider answered it.
C16_Witness ==
    /\ llmOp.op = "generate_response"
    /\ llmOp.before /\ llmOp.remote /\ ~llmOp.raised
    /\ gen[1].failed

\* C17: a similarity search of any store implementation that returns has
\* filtered with the threshold of the mode its embedding provider is in: no
\* result scores below that threshold, and no chunk at or above it is left
\* out while fewer than top_k results are returned.
C17_ThresholdPolicy ==
    (rpc[1] \in {"searched", "service_searched"} /\ ~results[1].raised) =>
        /\ \A i \in 1..Len(results[1].chunks) :
               results[1].chunks[i].score >= ActiveThreshold
        /\ Len(results[1].chunks) = Min2(query[1].top_k, Cardinality(Qualifying(1)))

\* A SimpleVectorService in fallback mode searched a store whose one chunk is
\* about another topic than the query, and returned nothing.
C17_Witness ==
    /\ rpc[1] = "service_searched" /\ ~results[1].raised
    /\ embDemo["rag"]
    /\ Len(store["rag"]) = 1
    /\ store["rag"][1].variant = "demo"
    /\ store["rag"][1].topic # query[1].topic
    /\ query[1].filter = NoFilter
    /\ results[1].chunks = <<>>

C19_ModelUsed ==
    \A r \in Requests :
       \A k \in 1..Len(events[r]) :
          events[r][k].type = "sources" =>
             /\ events[r][k].model_used = openai_model => gen[r].demo = 0
             /\ events[r][k].model_used = "demo-llm" =>
                   (gen[r].demo > 0 \/ gen[r].produced = 0)

\* Request 1 streamed all its tokens from the remote provider without a
\* failure; request 2 failed meanwhile and switched the shared service; the
\* sources event of request 1 says "demo-llm".
C19_Witness ==
    /\ gen[1].produced = MaxRemoteTokens /\ gen[1].demo = 0 /\ ~gen[1].failed
    /\ gen[2].failed
    /\ rpc[1] = "finished"
    /\ Last(events[1]).type = "sources"
    /\ Last(events[1]).model_used = "demo-llm"
    /\ Len(OfType(events[1], "token")) = MaxRemoteTokens

\* C20: the token events of a request are, one for one and in order, the
\* tokens the generation provider produced for it: every produced token is
\* appended as one token event at the moment it is produced, no other step
\* changes the token events, and at any time they are the remote tokens
\* 1..produced followed by the fallback tokens 1..demo, whatever the other
\* request does.
C20_TokenOrder ==
    /\ [](\A r \in Requests : RemoteTokensKept(r))
    /\ [][\A r \in Requests :
            /\ gen'[r].produced = gen[r].produced + 1 =>
                  events'[r] = Append(events[r], TokenEvent("remote", gen'[r].produced))
            /\ gen'[r].demo = gen[r].demo + 1 =>
                  events'[r] = Append(events[r], TokenEvent("demo", gen'[r].demo))
            /\ (gen'[r].produced = gen[r].produced /\ gen'[r].demo = gen[r].demo) =>
                  OfType(events'[r], "token") = OfType(events[r], "token")]_vars

\* Both requests are in the middle of their streams: request 1 has received
\* all its remote tokens, request 2 one remote token and, after a failure,
\* one fallback token.
C20_Witness ==
    /\ rpc[1] \in Generating /\ rpc[2] \in Generating
    /\ gen[1].phase = "remote" /\ gen[1].produced = MaxRemoteTokens
    /\ gen[2].phase = "demo" /\ gen[2].produced = 1 /\ gen[2].demo = 1
    /\ OfType(events[1], "token") = [i \in 1..MaxRemoteTokens |-> TokenEvent("remote", i)]
    /\ OfType(events[2], "token") = <<TokenEvent("remote", 1), TokenEvent("demo", 1)>>

---------------------------------------------------------------------------
(* Properties of the stream, the citations, deletion and retrieval *)

\* C21: the step at which the consumer cancels emits nothing, and from then on
\* the request gets no further event or frame, its generation produces no
\* further token and starts no further provider call, until the client's
\* next request.
C21_Cancellation ==
    [][\A r \in Requests :
         /\ (~gen[r].cancelled /\ gen'[r].cancelled) =>
               /\ events'[r] = events[r] /\ frames'[r] = frames[r]
               /\ gen'[r].produced = gen[r].produced /\ gen'[r].demo = gen[r].demo
               /\ rpc'[r] = "cancelled"
         /\ (gen[r].cancelled /\ rpc'[r] # "idle") =>
               /\ events'[r] = events[r] /\ frames'[r] = frames[r]
               /\ gen'[r] = gen[r]
               /\ llmCalls'[r] = llmCalls[r]]_vars

\* Request 1 was cancelled in the middle of its remote stream, after one
\* token; request 2 has since streamed to its end.
C21_Witness ==
    /\ gen[1].cancelled /\ rpc[1] = "cancelled"
    /\ gen[1].produced = 1 /\ gen[1].demo = 0
    /\ Len(OfType(events[1], "token")) = 1
    /\ Last(events[1]).type = "token"
    /\ rpc[2] = "finished"
    /\ Len(OfType(events[2], "token")) > 0

EndFrames(fr) == {i \in 1..Len(fr) : fr[i].type = "end"}

\* C22: the frames of a stream that has finished are the events of
\* query_stream, the last of them a sources or an error event, followed by
\* one end frame; a stream that has not finished has no end frame; a stream
\* leaves its last event only by writing the end frame, and nothing is
\* written after it.
C22_EndFrame ==
    /\ [](\A r \in Requests :
            /\ rpc[r] = "finished" =>
                  /\ frames[r] = Append(events[r], EndFrame)
                  /\ EndFrames(frames[r]) = {Len(frames[r])}
                  /\ events[r] # <<>>
                  /\ Last(events[r]).type \in {"sources", "error"}
            /\ rpc[r] # "finished" => EndFrames(frames[r]) = {})
    /\ [][\A r \in Requests :
            /\ (rpc[r] = "closing" /\ rpc'[r] # "closing") =>
                  (rpc'[r] = "finished" /\ frames'[r] = Append(frames[r], EndFrame))
            /\ (rpc[r] = "finished" /\ rpc'[r] = "finished") =>
                  frames'[r] = frames[r]
            /\ (rpc[r] \in {"stream", "searching"} \cup Generating) =>
                  rpc'[r] \in {"stream", "searching", "closing"} \cup Generating]_vars

\* Both requests have finished: one with a sources event and the end frame,
\* the other with an error event and the end frame.
C22_Witness ==
    /\ rpc[1] = "finished" /\ rpc[2] = "finished"
    /\ Last(events[1]).type = "sources"
    /\ Last(events[2]).type = "error"
    /\ Last(frames[1]) = EndFrame /\ Last(frames[2]) = EndFrame

\* C23: the citation list has one citation per retrieval result, as the
\* context block has one part per result, in the order of the results;
\* citation k carries the document id, the document name, the page number,
\* the chunk index and the score of result k, and names the document and
\* page that part k of the context names.
C23_CitationsFollowResults ==
    rpc[1] = "cited" =>
        LET res == results[1].chunks
            ctx == prepare_context(res)
        IN /\ Len(sources[1]) = Len(res)
           /\ Len(ctx) = Len(res)
           /\ \A k \in 1..Len(res) :
                 /\ sources[1][k].document_id = res[k].doc
                 /\ sources[1][k].document_name = res[k].name
                 /\ sources[1][k].page_number = res[k].page
                 /\ sources[1][k].chunk_index = res[k].idx
                 /\ sources[1][k].relevance_score = res[k].score
                 /\ ctx[k].source = k /\ ctx[k].content = res[k].id
                 /\ ctx[k].name = sources[1][k].document_name
                 /\ ctx[k].page = sources[1][k].page_number

\* Citations were prepared from two results of different documents, file
\* names, pages and scores.
C23_Witness ==
    /\ rpc[1] = "cited"
    /\ Len(results[1].chunks) = 2 /\ Len(sources[1]) = 2
    /\ sources[1][1].document_id # sources[1][2].document_id
    /\ sources[1][1].document_name # sources[1][2].document_name
    /\ sources[1][1].page_number # sources[1][2].page_number
    /\ sources[1][1].relevance_score > sources[1][2].relevance_score

\* The length of an excerpt: the characters kept, and three for the marker.
ExcerptLen(e) == e.kept + (IF e.ellipsis THEN 3 ELSE 0)

\* C24: the excerpt of every citation built from a retrieval result has at
\* most 200 characters: it is the whole content when the content has at most
\* 200 characters, and otherwise it ends with the ellipsis marker.
C24_ExcerptBound ==
    rpc[1] = "cited" =>
        \A k \in 1..Len(sources[1]) :
           /\ ExcerptLen(sources[1][k].excerpt) <= MaxExcerpt
           /\ results[1].chunks[k].chars <= MaxExcerpt =>
                 sources[1][k].excerpt = [kept |-> results[1].chunks[k].chars,
                                          ellipsis |-> FALSE]
           /\ results[1].chunks[k].chars > MaxExcerpt => sources[1][k].excerpt.ellipsis

\* A citation was built from a chunk of 201 characters: its excerpt keeps
\* 200 of them and adds the marker.
C24_Witness ==
    /\ rpc[1] = "cited"
    /\ Len(sources[1]) = 1
    /\ results[1].chunks[1].chars = MaxExcerpt + 1
    /\ sources[1][1].excerpt = [kept |-> MaxExcerpt, ellipsis |-> TRUE]

\* C25: a delete_document call for an id the registry does not hold returns
\* found = false and raises nothing, and leaves the chunks and embeddings of
\* every store, the snapshot and the registry as they were; after a call
\* that returned true the id is gone, so a second call for it is such a call.
C25_DeleteAbsent ==
    /\ [](lastDelete.found => lastDelete.id \notin documents)
    /\ [][lastDelete'.id \notin documents =>
            /\ ~lastDelete'.found /\ ~lastDelete'.raised
            /\ UNCHANGED <<documents, collection, store, storageFile>>]_vars

\* Document 1 was deleted, and deleted again: the second call answered
\* "not found" and the chunk of document 2 is still stored.
C25_Witness ==
    /\ deleted = {1}
    /\ lastDelete = [id |-> 1, found |-> FALSE, raised |-> FALSE]
    /\ documents = {2}
    /\ Len(store["doc"]) = 1 /\ store["doc"][1].doc = 2
    /\ storageFile = store["doc"]

\* C26: with no change of the store in between, a similarity search with
\* the query, top_k and filter of the search before it returns the list the
\* search before it returned.
C26_IdempotentRetrieval ==
    [][(/\ rpc[1] = "searched" /\ rpc'[1] = "searched"
        /\ query'[1] = query[1]
        /\ SearchedStore' = SearchedStore
        /\ ~results[1].raised /\ ~results'[1].raised)
       => results'[1].chunks = results[1].chunks]_vars

\* The store holds one chunk embedded by the remote provider; a search about
\* its topic has been embedded by the local fallback and has found nothing.
C26_Witness ==
    /\ rpc[1] = "searched" /\ ~results[1].raised
    /\ embDemo["rag"]
    /\ Len(SearchedStore) = 1
    /\ SearchedStore[1].variant = "remote"
    /\ SearchedStore[1].topic = query[1].topic
    /\ MatchesFilter(SearchedStore[1], query[1].filter)
    /\ results[1].chunks = <<>>

\* s is t with some elements left out, the others in their order.
RECURSIVE IsSubSeq(_, _)
IsSubSeq(s, t) ==
    IF s = <<>> THEN TRUE
    ELSE IF t = <<>> THEN FALSE
    ELSE IF Head(s) = Head(t) THEN IsSubSeq(Tail(s), Tail(t))
    ELSE IsSubSeq(s, Tail(t))

\* C27: for one query, store, top_k and filter, the results under a threshold
\* t2 >= t1 are no more than the results under t1 and are among them, in the
\* same order, on the persistent-index path and on the in-memory path.
C27_ThresholdMonotone ==
    (rpc[1] = "searched" /\ rpc[2] = "searched"
     /\ results[1].threshold <= results[2].threshold) =>
        /\ Len(results[2].chunks) <= Len(results[1].chunks)
        /\ IsSubSeq(results[2].chunks, results[1].chunks)
        /\ \A i \in 1..Len(results[2].chunks) :
              results[2].chunks[i].score >= results[2].threshold

\* On the in-memory path with top_k = 1 and two stored chunks, the lower
\* threshold returned a chunk and the higher one nothing.
C27_Witness ==
    /\ rpc[1] = "searched" /\ rpc[2] = "searched"
    /\ ~useChroma["rag"]
    /\ Len(store["rag"]) = 2
    /\ query[1].top_k = 1
    /\ results[1].threshold < results[2].threshold
    /\ Len(results[1].chunks) = 1
    /\ results[2].chunks = <<>>

\* C28: of two chunks returned with equal score by the in-memory search, the
\* one added earlier comes first, whatever add_chunks, delete_document and
\* snapshot reloads went before.
C28_TieBreak ==
    (rpc[1] = "searched" /\ ~useChroma["doc"]) =>
        \A i \in 1..Len(results[1].chunks) : \A j \in 1..Len(results[1].chunks) :
            (i < j /\ results[1].chunks[i].score = results[1].chunks[j].score)
                => results[1].chunks[i].doc < results[1].chunks[j].doc

\* Three documents were added and the second is gone from the store and from
\* the snapshot; the search returned the first and the third with equal score.
C28_Witness ==
    /\ rpc[1] = "searched"
    /\ nextDoc = 3
    /\ Len(store["doc"]) = 2
    /\ store["doc"] = storageFile
    /\ Len(results[1].chunks) = 2
    /\ results[1].chunks[1].score = results[1].chunks[2].score
    /\ results[1].chunks[1].doc = 1
    /\ results[1].chunks[2].doc = 3

\* What decides the fate of a file: it passes validation, its text can be
\* extracted and is not blank, and the store accepts its chunks.
FileSucceeds(f) ==
    /\ f.kind = "text"
    /\ useChroma["doc"] => f.addOk

\* The ids of the files that succeed, in the order of the files.
RECURSIVE IdsOfSucceeding(_, _)
IdsOfSucceeding(fs, ids) ==
    IF fs = <<>> THEN <<>>
    ELSE (IF FileSucceeds(Head(fs)) THEN <<Head(ids)>> ELSE <<>>)
         \o IdsOfSucceeding(Tail(fs), Tail(ids))

\* C29: a call of process_documents that comes back has gone through every
\* file; it returns the documents of exactly the files that passed
\* validation, extraction, chunking and storage, in the order of the files,
\* registers exactly those, and raises exactly when there is none.
C29_PartialSuccess ==
    (lastIngest # NoIngest /\ ~hung) =>
        /\ Len(lastIngest.ids) = Len(lastIngest.inputs)
        /\ lastIngest.processed = IdsOfSucceeding(lastIngest.inputs, lastIngest.ids)
        /\ documents = Range(lastIngest.processed)
        /\ lastIngest.raised <=> lastIngest.processed = <<>>

\* Three files: the first fails validation, the second is stored, the third
\* is refused by the store; the call returned the second alone.
C29_Witness ==
    /\ ~hung
    /\ lastIngest # NoIngest
    /\ Len(lastIngest.inputs) = 3
    /\ lastIngest.files[1] = "too_large"
    /\ FileSucceeds(lastIngest.inputs[2])
    /\ lastIngest.files[3] = "text" /\ ~lastIngest.inputs[3].addOk
    /\ lastIngest.processed = <<lastIngest.ids[2]>>
    /\ ~lastIngest.raised

\* The store that the DocumentService's VectorService reads.
DocStore == IF useChroma["doc"] THEN collection ELSE store["doc"]

\* C30: the chunks carry the document-level fields filename, file_type,
\* file_size and upload_date, and a start-up that finds chunks in the store
\* registers every document that has chunks there, so that listDocuments
\* returns them.
C30_DocumentsRebuilt ==
    [][(~started /\ started' /\ DocStore' # <<>>) =>
          /\ {"filename", "file_type", "file_size", "upload_date"} \subseteq MetadataKeys
          /\ documents' = {DocStore'[i].doc : i \in 1..Len(DocStore')}]_vars

\* The service was started again on a store that holds the chunk of a
\* document uploaded before, and its registry is empty.
C30_Witness ==
    /\ started
    /\ lastIngest = NoIngest
    /\ DocStore # <<>>
    /\ documents = {}

---------------------------------------------------------------------------
(* Properties of the batch embedding, the health checks and the in-memory store *)

\* C31: create_embeddings_batch returns one vector per input text, the vector
\* at position k being that of text k, for every input list, lists with
\* blank texts and runs with a failing batch request included.
C31_BatchOneToOne ==
    (embOp.op = "create_embeddings_batch" /\ ~embOp.raised) =>
        Len(embOp.variants) = Len(embOp.blanks)

\* A batch of a blank text followed by a non-blank one came back with a
\* single vector.
C31_Witness ==
    /\ embOp.op = "create_embeddings_batch"
    /\ embOp.blanks = <<TRUE, FALSE>>
    /\ ~embOp.raised
    /\ Len(embOp.variants) = 1

\* C32: a health check leaves the provider variant flag of the component
\* as it found it, the provider being reachable or not.
C32_HealthNoSideEffects ==
    embOp.op = "health_check" => embDemo[embOp.inst] = embOp.before

\* A health check found the embedding service in remote mode, called the
\* provider, and left the service in demo mode.
C32_Witness ==
    /\ embOp.op = "health_check"
    /\ ~embOp.before
    /\ embOp.remote
    /\ embDemo[embOp.inst]

\* C33: mutating calls on the in-memory store do not interleave, so a
\* snapshot holds, for each add_chunks call that did not fail, all of its
\* chunks or none of them.
C33_MutationsSerialized ==
    mem.file.valid =>
        \A c \in Calls :
            mem.calls[c].op \in {"add", "added", "killed"} =>
                LET ids == MemKeys(mem.calls[c].batch)
                IN MemKeys(mem.file.chunks) \cap ids \in {{}, ids}

\* An add_chunks call of two chunks waits for the embedding of its second
\* chunk, a delete_document call has run meanwhile, and the snapshot it wrote
\* holds the first chunk alone.
C33_Witness ==
    \E c \in Calls :
        /\ mem.calls[c].op = "add"
        /\ Len(mem.calls[c].batch) = 2
        /\ mem.calls[c].at = 2
        /\ mem.last.op = "delete"
        /\ mem.file.valid
        /\ MemKeys(mem.file.chunks) \cap MemKeys(mem.calls[c].batch) = {mem.calls[c].batch[1].id}

\* No add_chunks call is under way.
MemQuiet == \A c \in Calls : mem.calls[c].op # "add"

\* C34: once the add_chunks and delete_document calls have ended, the
\* snapshot holds the two dicts as they are, so that a restart loading it
\* gives back the same chunks and embeddings in the same order.
C34_SnapshotRoundTrip ==
    (mem.last.op \in {"add", "delete"} /\ MemQuiet) =>
        /\ mem.file = [valid |-> TRUE, chunks |-> mem.chunks, embeddings |-> mem.embeddings]
        /\ init_simple(mem).chunks = mem.chunks
        /\ init_simple(mem).embeddings = mem.embeddings

\* An add_chunks call of two chunks has ended by raising at its second
\* chunk; the first is in the dicts and not in the snapshot.
C34_Witness ==
    /\ MemQuiet
    /\ mem.last.op = "add" /\ mem.last.raised
    /\ mem.file.valid
    /\ Len(mem.chunks) > Len(mem.file.chunks)

\* C35: whatever add_chunks, delete_document, similarity_search and snapshot
\* loads have run, and however they interleaved, the chunks dict and the
\* embeddings dict have the same keys (in memory and in a snapshot that
\* parses), and a search never meets a chunk without embedding and returns
\* only chunks that have one.
C35_Pairing ==
    /\ MemKeys(mem.chunks) = MemKeys(mem.embeddings)
    /\ mem.file.valid => MemKeys(mem.file.chunks) = MemKeys(mem.file.embeddings)
    /\ mem.last.op = "search" =>
          /\ ~mem.last.missing
          /\ Range(mem.last.result) \subseteq MemKeys(mem.embeddings)

\* A search returned a chunk while an add_chunks call was waiting for the
\* embedding of its second chunk, a document having been deleted before.
C35_Witness ==
    /\ mem.last.op = "search"
    /\ mem.last.result # <<>>
    /\ \E c \in Calls : mem.calls[c].op = "add" /\ mem.calls[c].at = 2
    /\ nextDoc = MaxDocs
    /\ \E d \in 1..MaxDocs : \A i \in 1..Len(mem.chunks) : mem.chunks[i].doc # d

\* C36: on the same contents, with the same embeddings, top_k and filter,
\* the persistent-index path and the in-memory path return the same ordered
\* list of results, scores included.
C36_BackendEquivalence ==
    (rpc[1] = "searched" /\ rpc[2] = "searched"
     /\ results[1].backend = "chromadb" /\ results[2].backend = "simple") =>
        results[1].chunks = results[2].chunks

\* Both paths searched a store holding a chunk about the topic of the query,
\* embedded as the query is; the in-memory path returned it.
C36_Witness ==
    /\ rpc[1] = "searched" /\ rpc[2] = "searched"
    /\ results[1].backend = "chromadb" /\ results[2].backend = "simple"
    /\ query[1] = query[2]
    /\ Len(results[2].chunks) = 1
    /\ results[2].chunks[1].topic = query[2].topic
    /\ Len(results[1].chunks) = 1
    /\ results[1].chunks[1].id = results[2].chunks[1].id
    /\ results[1].chunks[1].score # results[2].chunks[1].score

---------------------------------------------------------------------------
(* Properties of the stream's end, of failing adds, of the registry and of validation *)

TerminalEvent(e) == e.type \in {"sources", "error"}

\* C37: a run of query_stream yields at most one terminal event (sources or
\* error), and nothing after it: a terminal event is the last event.
C37_OneTerminalEvent ==
    \A r \in Requests : \A i \in 1..Len(events[r]) :
        TerminalEvent(events[r][i]) => i = Len(events[r])

\* One stream has ended with its sources event after tokens, the other with
\* an error event.
C37_Witness ==
    /\ rpc[1] = "finished"
    /\ Len(events[1]) >= 4
    /\ Last(events[1]).type = "sources"
    /\ OfType(events[1], "token") # <<>>
    /\ rpc[2] = "finished"
    /\ Last(events[2]).type = "error"

\* C38: an add_chunks call that raised has left nothing of its batch in the
\* chunks dict, the embeddings dict or the snapshot, so that no search
\* returns a chunk of the failed batch.
C38_AddAllOrNothing ==
    \A c \in Calls :
        mem.calls[c].op = "raised" =>
            LET ids == MemKeys(mem.calls[c].batch)
            IN /\ MemKeys(mem.chunks) \cap ids = {}
               /\ MemKeys(mem.embeddings) \cap ids = {}
               /\ MemKeys(mem.file.chunks) \cap ids = {}
               /\ mem.last.op = "search" => Range(mem.last.result) \cap ids = {}

\* An add_chunks call raised at its second chunk, and a search that came
\* after it returned the first chunk of that batch.
C38_Witness ==
    \E c \in Calls :
        /\ mem.calls[c].op = "raised"
        /\ mem.calls[c].at = 2
        /\ mem.last.op = "search"
        /\ mem.calls[c].batch[1].id \in Range(mem.last.result)

\* C39: whatever uploads, deletions and restarts went before, the document
\* ids of the registry of a running DocumentService are the document ids
\* carried by the chunks in its vector store.
C39_RegistryMatchesStore ==
    (started /\ ~hung) => documents = {DocStore[i].doc : i \in 1..Len(DocStore)}

\* Two documents were uploaded, the service was started again, and a chunk
\* in its store belongs to a document that is not registered.
C39_Witness ==
    /\ started /\ ~hung
    /\ nextDoc = MaxDocs
    /\ lastIngest = NoIngest
    /\ \E i \in 1..Len(DocStore) : DocStore[i].doc \notin documents

\* C40: create_embedding called with blank text on an instance in remote
\* mode reports an error and leaves the instance in remote mode.
C40_ValidationNoFallback ==
    (embOp.op = "create_embedding" /\ embOp.blanks = <<TRUE>> /\ ~embOp.before) =>
        /\ embOp.raised
        /\ ~embDemo[embOp.inst]

\* create_embedding was called with blank text in remote mode, made no
\* request to the provider, returned a vector and left the instance in
\* demo mode.
C40_Witness ==
    /\ embOp.op = "create_embedding"
    /\ embOp.blanks = <<TRUE>>
    /\ ~embOp.before
    /\ ~embOp.remote
    /\ ~embOp.raised
    /\ embOp.variants = <<"demo">>
    /\ embDemo[embOp.inst]

===========================================================================
